---- MODULE Spec2Model ----
(***************************************************************************)
(* Icon Management plugin (src/code.ts): similarity scoring, duplicate     *)
(* clustering, the per-cluster consolidation transaction and the three-    *)
(* phase discovery scan, as state machines.                                *)
(*                                                                         *)
(* Strings are sequences of one-character strings, so that the regular     *)
(* expressions of the source are computed and not assumed.                 *)
(***************************************************************************)
EXTENDS Integers, Sequences, FiniteSets, TLC

VARIABLES
  \* ---- calculateIconSimilarity called both ways on one pair -------------
  simIcon1, simIcon2,   \* the two IconInfo records
  simNodes,             \* id -> backing node snapshot, or Null (getNodeByIdAsync)
  simAB, simBA,         \* results of similarity(icon1,icon2) and (icon2,icon1)
  simPc,                \* "start" | "forward" | "done"
  \* ---- the document tree -------------------------------------------------
  tree,                 \* node id -> node record, for the nodes that exist
  currentPage,          \* id of figma.currentPage
  nextId,               \* id the next created node gets
  \* ---- consolidateSimilarIcons -------------------------------------------
  reqIcons,             \* msg.icons
  reqScope,             \* msg.scope
  reqPageName,          \* msg.currentPageName, <<>> when absent
  pc,                   \* position in consolidateSimilarIcons
  idx,                  \* index of the running loop
  iconsToProcess,
  validIcons,
  iconGroups,           \* Map<string, IconInfo[]> in insertion order
  enhancedGroups,       \* Map<string, IconInfo[]> in insertion order
  processedIcons,       \* Set<string> of icon ids
  outbox,               \* messages posted to the UI, in order
  libraryPage,          \* id of iconLibraryPage, 0 before it is looked up
  groupsToProcess,      \* enhancedGroupsToProcess: the groups of several icons
  singleIcons,          \* enhancedSingleIcons
  componentsCreated, iconsReplaced, failedOperations,
  pagesAffected,        \* Set<string> of page names
  tx,                   \* the createComponentFrom... call in progress
  lastTx,               \* the call that returned last, with its result
  faults,               \* tree-interface failures still to come in this run
  \* ---- the scan-icons handler and scanForIcons ---------------------------
  scanPc,               \* position in the handler
  pageIndex,            \* pageIndex of the running phase, counted from 0
  pagesToScan,          \* ids of the pages left by the cap and the filter
  allIcons,             \* IconInfo[] in push order
  masterComponentIds,   \* Set<string>
  ignoredIcons,         \* the module-level Set<string> of ignored ids
  scanResult,           \* the ScanResult returned, Null before
  visited,              \* record of the <<phase, page id>> pairs that were scanned
  storedIgnored,        \* clientStorage 'ignoredIcons': NoEntry or an Entry
  storageFailed,        \* record of whether a clientStorage call has failed
  scanAuto,             \* the running scan was started by a page change
  pageChangeTimer,      \* a debounce timer of the page change is pending
  \* ---- isLikelyIcon ------------------------------------------------------
  classCalls,           \* record of the calls of isLikelyIcon, in order
  \* ---- the replace-with-instance handler ---------------------------------
  rwiPc,                \* position in replaceUnresolvedWithInstance
  rwiReq,               \* msg.unresolvedIcon, msg.masterComponent, the node
                        \* looked up for the former
  rwiDuring,            \* record of pc at the time the handler changed the tree
  \* ---- the consolidate-library-duplicates handler ------------------------
  libPc,                \* position in consolidateLibraryDuplicates
  libGroups,            \* the entries of groupsToProcess not yet processed
  duplicatesRemoved,
  libErrors,            \* errors.length
  libGone,              \* record of the nodes that left the document by a
                        \* remove() of the handler, with their types
  \* ---- a session of several scans ----------------------------------------
  firstRun,             \* record of the first consolidation run of the
                        \* session, Null before the scan that follows it
  secondRun,            \* a second consolidate-icons request was received
  \* ---- the selectionchange handler and its debounce timer ----------------
  lastKnownPageId,
  timerHandle,          \* the variable pageChangeTimer: 0 for null, or the
                        \* id setTimeout returned
  timers,               \* ids of the timeouts set and neither cleared nor
                        \* fired
  autoScans,            \* ids of the timeouts whose callback is waiting for
                        \* its scanForIcons() to return
  \* ---- ignore-icon handlers followed from await to await -----------------
  ignoreCalls           \* msg.iconId -> position of the handler called with
                        \* it, the array its setAsync was given and the
                        \* number of its call of the storage

simVars == <<simIcon1, simIcon2, simNodes, simAB, simBA, simPc>>
treeVars == <<tree, currentPage, nextId>>
groupVars == <<iconsToProcess, validIcons, iconGroups, enhancedGroups,
               processedIcons>>
reqVars == <<reqIcons, reqScope, reqPageName>>
runVars == <<libraryPage, groupsToProcess, singleIcons, componentsCreated,
             iconsReplaced, failedOperations, pagesAffected>>
txVars == <<tx, lastTx, faults>>
conVars == <<treeVars, reqVars, groupVars, runVars, txVars, pc, idx, outbox>>
scanVars == <<scanPc, pageIndex, pagesToScan, allIcons, masterComponentIds,
              ignoredIcons, scanResult, visited>>
storeVars == <<storedIgnored, storageFailed, scanAuto, pageChangeTimer>>
rwiVars == <<rwiPc, rwiReq, rwiDuring>>
libVars == <<libPc, libGroups, duplicatesRemoved, libErrors, libGone>>
sessionVars == <<firstRun, secondRun>>
debounceVars == <<lastKnownPageId, timerHandle, timers, autoScans>>
handlerVars == <<libVars, sessionVars, debounceVars, ignoreCalls>>
sideVars == <<storeVars, classCalls, rwiVars, handlerVars>>

\* null as getNodeByIdAsync yields it for an id that no longer resolves
Null == [type |-> "null"]

\* placeholder of an IconInfo variable that holds no icon
NoIcon == [id |-> 0]

\* ------------------------------------------------------------------------
\* Characters and strings
\* ------------------------------------------------------------------------
LowerSeq == <<"a","b","c","d","e","f","g","h","i","j","k","l","m",
              "n","o","p","q","r","s","t","u","v","w","x","y","z">>
UpperSeq == <<"A","B","C","D","E","F","G","H","I","J","K","L","M",
              "N","O","P","Q","R","S","T","U","V","W","X","Y","Z">>
LowerSet == {LowerSeq[i] : i \in DOMAIN LowerSeq}
UpperSet == {UpperSeq[i] : i \in DOMAIN UpperSeq}
DigitSet == {"0","1","2","3","4","5","6","7","8","9"}

\* String.prototype.toLowerCase, per character
LowerChar(c) ==
  IF c \in UpperSet
    THEN LowerSeq[CHOOSE i \in DOMAIN UpperSeq : UpperSeq[i] = c]
    ELSE c

ToLowerCase(s) == [i \in DOMAIN s |-> LowerChar(s[i])]

\* String.prototype.toUpperCase, per character
UpperChar(c) ==
  IF c \in LowerSet
    THEN UpperSeq[CHOOSE i \in DOMAIN LowerSeq : LowerSeq[i] = c]
    ELSE c

\* s.replace(/[...]/g, '') for a character class given as a set
RemoveChars(s, class) == SelectSeq(s, LAMBDA c : c \notin class)

\* s.replace(/[^...]/g, '') for a character class given as a set
KeepChars(s, class) == SelectSeq(s, LAMBDA c : c \in class)

\* does word w occur in s starting at index i
MatchAt(s, i, w) ==
  /\ i + Len(w) - 1 <= Len(s)
  /\ \A k \in 1..Len(w) : s[i + k - 1] = w[k]

\* String.prototype.includes
Includes(s, w) == \E i \in 1..(Len(s) + 1) : MatchAt(s, i, w)

\* the alternation (icon|svg|vector|graphic|outline|filled|solid), in order
StopWords == << <<"i","c","o","n">>,
                <<"s","v","g">>,
                <<"v","e","c","t","o","r">>,
                <<"g","r","a","p","h","i","c">>,
                <<"o","u","t","l","i","n","e">>,
                <<"f","i","l","l","e","d">>,
                <<"s","o","l","i","d">> >>

\* s.replace(/(icon|svg|...)/g, ''): leftmost matches, scanned once, the
\* first alternative that matches at a position wins
RECURSIVE StripWordsFrom(_, _)
StripWordsFrom(s, i) ==
  IF i > Len(s) THEN <<>>
  ELSE LET hits == {k \in DOMAIN StopWords : MatchAt(s, i, StopWords[k])}
       IN IF hits = {}
            THEN <<s[i]>> \o StripWordsFrom(s, i + 1)
            ELSE LET k == CHOOSE h \in hits : \A g \in hits : h <= g
                 IN StripWordsFrom(s, i + Len(StopWords[k]))

SeparatorSet == {"-", "_", " ", "."}

\* toLowerCase().replace(/[-_\s\.]/g,'').replace(/\d+/g,'')
StripSeparatorsAndDigits(s) ==
  RemoveChars(RemoveChars(ToLowerCase(s), SeparatorSet), DigitSet)

\* the full normalisation chain: ... .replace(/(icon|...)/g,'').replace(/[^a-z]/g,'')
normalize(s) ==
  KeepChars(StripWordsFrom(StripSeparatorsAndDigits(s), 1), LowerSet)

\* /^([a-zA-Z0-9-_]+)\/(.+)$/ : index of the separating slash, 0 when the
\* name is not library-style
LibraryChars == LowerSet \cup UpperSet \cup DigitSet \cup {"-", "_"}

libraryPattern(name) ==
  LET slashes == {i \in DOMAIN name : name[i] = "/"}
  IN IF slashes = {} THEN 0
     ELSE LET p == CHOOSE i \in slashes : \A j \in slashes : i <= j
          IN IF /\ p > 1
                /\ p < Len(name)
                /\ \A j \in 1..(p - 1) : name[j] \in LibraryChars
               THEN p ELSE 0

LibraryPart(name) == SubSeq(name, 1, libraryPattern(name) - 1)
IconPart(name) == SubSeq(name, libraryPattern(name) + 1, Len(name))

\* figma.root.name, the file name parseIconSource falls back to
FileName == <<"D","e","s","i","g","n">>

IconLibrarySource == <<"I","c","o","n"," ","L","i","b","r","a","r","y">>
LibrarySuffix == <<" ","L","i","b","r","a","r","y">>

\* libraryMap entries whose display name is not "<Name> Library"
libraryMap(lib) ==
  CASE lib = <<"f","e","a","t","h","e","r">> ->
         <<"F","e","a","t","h","e","r"," ","I","c","o","n","s">>
    [] lib = <<"r","e","m","i","x">> ->
         <<"R","e","m","i","x"," ","I","c","o","n">>
    [] OTHER -> <<UpperChar(lib[1])>> \o SubSeq(lib, 2, Len(lib)) \o LibrarySuffix

\* parseIconSource in a file of this name: figma.root.name || 'Unknown' is
\* the source of a name without a library prefix and without 'icon'
parseIconSourceIn(rootName, iconName) ==
  IF libraryPattern(iconName) > 0
    THEN libraryMap(ToLowerCase(LibraryPart(iconName)))
    ELSE IF Includes(ToLowerCase(iconName), <<"i","c","o","n">>)
           THEN IconLibrarySource
           ELSE IF rootName = <<>> THEN <<"U","n","k","n","o","w","n">>
           ELSE rootName

parseIconSource(iconName) == parseIconSourceIn(FileName, iconName)

\* ------------------------------------------------------------------------
\* SimilarityScorer
\* ------------------------------------------------------------------------
Max(a, b) == IF a >= b THEN a ELSE b
Min(a, b) == IF a <= b THEN a ELSE b
Abs(a) == IF a >= 0 THEN a ELSE 0 - a

\* the inner loop of levenshteinDistance for one row i of the matrix:
\* a.c is str2.charAt(i - 1), a.prev is matrix[i - 1], a.acc is
\* matrix[i][0 .. j - 1]; both hold column k at index k + 1
LevenshteinRowArgs ==
  [str1 : Seq(STRING), c : STRING, prev : Seq(Nat), acc : Seq(Nat), j : Nat]

LevenshteinRow[a \in LevenshteinRowArgs] ==
  IF a.j > Len(a.str1) THEN a.acc
  ELSE LET v == IF a.c = a.str1[a.j]
                  THEN a.prev[a.j]
                  ELSE Min(Min(a.prev[a.j] + 1, a.acc[a.j] + 1),
                           a.prev[a.j + 1] + 1)
       IN LevenshteinRow[[a EXCEPT !.acc = Append(a.acc, v), !.j = a.j + 1]]

\* the outer loop of levenshteinDistance, from row i on
LevenshteinRowsArgs ==
  [str1 : Seq(STRING), str2 : Seq(STRING), prev : Seq(Nat), i : Nat]

LevenshteinRows[a \in LevenshteinRowsArgs] ==
  IF a.i > Len(a.str2) THEN a.prev[Len(a.str1) + 1]
  ELSE LevenshteinRows[[a EXCEPT
         !.prev = LevenshteinRow[[str1 |-> a.str1, c |-> a.str2[a.i],
                                  prev |-> a.prev, acc |-> <<a.i>>, j |-> 1]],
         !.i = a.i + 1]]

levenshteinDistance(str1, str2) ==
  LevenshteinRows[[str1 |-> str1, str2 |-> str2,
                   prev |-> [j \in 1..(Len(str1) + 1) |-> j - 1], i |-> 1]]

\* Math.floor((1 - distance / maxLen) * 30) in IEEE-754 double arithmetic.
\* For these <<maxLen, distance>> pairs the double product falls just below
\* the exact integer value, so the floor is one less than the exact floor.
DoubleRoundsDown ==
  { <<5, 4>>, <<6, 5>>, <<10, 8>>, <<10, 9>>, <<12, 10>>, <<15, 12>>,
    <<15, 13>>, <<15, 14>>, <<18, 15>>, <<20, 16>>, <<20, 18>>, <<24, 20>>,
    <<25, 20>> }

FloorSimilarity30(distance, maxLen) ==
  LET exact == (30 * (maxLen - distance)) \div maxLen
  IN IF <<maxLen, distance>> \in DoubleRoundsDown THEN exact - 1 ELSE exact

\* a variant that takes the first name's length for maxLen
ScoreNormalized_FirstLength(norm1, norm2) ==
  IF norm1 = norm2 THEN 30
  ELSE IF Len(norm1) = 0 \/ Len(norm2) = 0 THEN 0
  ELSE FloorSimilarity30(levenshteinDistance(norm1, norm2), Len(norm1))

\* the tail shared by both branches of calculateNameSimilarity
ScoreNormalized(norm1, norm2) ==
  IF norm1 = norm2 THEN 30
  ELSE IF Len(norm1) = 0 \/ Len(norm2) = 0 THEN 0
  ELSE FloorSimilarity30(levenshteinDistance(norm1, norm2),
                         Max(Len(norm1), Len(norm2)))

calculateNameSimilarity(name1, name2) ==
  IF libraryPattern(name1) > 0 /\ libraryPattern(name2) > 0
    THEN IF ToLowerCase(LibraryPart(name1)) = ToLowerCase(LibraryPart(name2))
           THEN ScoreNormalized(StripSeparatorsAndDigits(IconPart(name1)),
                                StripSeparatorsAndDigits(IconPart(name2)))
           ELSE 5
    ELSE ScoreNormalized(normalize(name1), normalize(name2))

\* Array.isArray(node.fills) ? node.fills : []   (figma.mixed is not an array)
Mixed == <<"figma.mixed">>
PaintArray(p) == IF p = Mixed THEN <<>> ELSE p

\* one of the two paint blocks of calculateVisualSimilarity
PaintScore(has1, p1, has2, p2) ==
  IF has1 /\ has2
    THEN LET a1 == PaintArray(p1)
             a2 == PaintArray(p2)
         IN IF Len(a1) = Len(a2)
              THEN 5 + (IF Len(a1) > 0 /\ Len(a2) > 0 /\ a1[1] = a2[1]
                          THEN 5 ELSE 0)
              ELSE 0
    ELSE 0

\* a variant that returns visualScore without the final Math.min
calculateVisualSimilarity_Uncapped(node1, node2) ==
  (IF node1.type = node2.type THEN 10 ELSE 0)
    + PaintScore(node1.hasFills, node1.fills, node2.hasFills, node2.fills)
    + PaintScore(node1.hasStrokes, node1.strokes,
                 node2.hasStrokes, node2.strokes)

calculateVisualSimilarity(node1, node2) ==
  Min(20, (IF node1.type = node2.type THEN 10 ELSE 0)
          + PaintScore(node1.hasFills, node1.fills, node2.hasFills, node2.fills)
          + PaintScore(node1.hasStrokes, node1.strokes,
                       node2.hasStrokes, node2.strokes))

\* the components of calculateIconSimilarity; RatioScoreNum is ratioScore
\* times icon1.height * icon2.height
SizeScore(icon1, icon2) ==
  Max(0, 30 - Abs(icon1.width - icon2.width)
            - Abs(icon1.height - icon2.height))

RatioScoreNum(icon1, icon2) ==
  Max(0, 20 * icon1.height * icon2.height
         - 100 * Abs(icon1.width * icon2.height - icon2.width * icon1.height))

SourceScore(icon1, icon2) == IF icon1.source = icon2.source THEN 20 ELSE 0

BackingNode(icon, nodes) == IF icon.id \in DOMAIN nodes THEN nodes[icon.id] ELSE Null

VisualScore(icon1, icon2, nodes) ==
  LET node1 == BackingNode(icon1, nodes)
      node2 == BackingNode(icon2, nodes)
  IN IF node1 # Null /\ node2 # Null
       THEN calculateVisualSimilarity(node1, node2)
       ELSE 0

\* The score is a JavaScript number; ratioScore is not an integer in
\* general, so the result is kept as the exact fraction num / den with
\* den = icon1.height * icon2.height.  nodes[id] is what getNodeByIdAsync
\* yields for id: a snapshot, or Null when the id no longer resolves (a
\* lookup that throws skips the visual bonus in the same way).
calculateIconSimilarity(icon1, icon2, nodes) ==
  LET den == icon1.height * icon2.height
      sizeScore == SizeScore(icon1, icon2)
      ratioNum == RatioScoreNum(icon1, icon2)
      nameScore == calculateNameSimilarity(icon1.name, icon2.name)
      sourceScore == SourceScore(icon1, icon2)
      visualScore == VisualScore(icon1, icon2, nodes)
  IN [num |-> Min(100 * den,
                  (sizeScore + nameScore + sourceScore + visualScore) * den
                  + ratioNum),
      den |-> den]

\* comparisons of two scores, and of a score with an integer
ScoreGreater(a, b) == a.num * b.den > b.num * a.den
ScoreEqual(a, b) == a.num * b.den = b.num * a.den
ScoreAbove(a, n) == a.num > n * a.den
ScoreIs(a, n) == a.num = n * a.den

\* ------------------------------------------------------------------------
\* Node names the inputs are drawn from
\* ------------------------------------------------------------------------
nHomeDashIcon == <<"h","o","m","e","-","i","c","o","n">>
nHomeIcon2 == <<"h","o","m","e","_","i","c","o","n","2">>
nHomeIconCamel == <<"H","o","m","e","I","c","o","n">>
nHome == <<"h","o","m","e">>
nHomes == <<"h","o","m","e","s">>
nLucideHome == <<"l","u","c","i","d","e","/","h","o","m","e">>
nLucideHome2 == <<"L","u","c","i","d","e","/","H","o","m","e","-","2">>
nLucideHouse == <<"l","u","c","i","d","e","/","h","o","u","s","e">>
nHeroHome == <<"h","e","r","o","i","c","o","n","s","/","h","o","m","e">>
nArrow == <<"a","r","r","o","w">>
nIcon == <<"i","c","o","n">>
nStar == <<"s","t","a","r">>
nUser == <<"u","s","e","r">>
nUsed == <<"u","s","e","d">>
nStarIcon == <<"s","t","a","r","-","i","c","o","n">>
nOuter == <<"O","u","t","e","r">>
nLayer1 == <<"L","a","y","e","r"," ","1">>
nHomeIconTab == <<"h","o","m","e","-","i","c","o","n"," ","t","a","b">>
nSubmitButton == <<"S","u","b","m","i","t","B","u","t","t","o","n">>
nIconArrow == <<"I","c","o","n","/","a","r","r","o","w">>

\* ------------------------------------------------------------------------
\* calculateIconSimilarity on a pair, called in both argument orders
\* ------------------------------------------------------------------------
SimNames == {nHomeDashIcon, nHomeIcon2, nHomeIconCamel, nHome, nHomes,
             nLucideHome, nLucideHome2, nLucideHouse, nHeroHome, nArrow, nIcon}

\* <<width, height>> as scanForIcons records them (Math.floor of the bounds)
SimSizes == {<<24, 24>>, <<20, 20>>, <<24, 25>>, <<20, 25>>, <<64, 24>>}

\* what calculateVisualSimilarity reads of a backing node
NodeSnapshots ==
  { [type |-> "FRAME", hasFills |-> TRUE, fills |-> <<"SOLID">>,
     hasStrokes |-> TRUE, strokes |-> <<>>],
    [type |-> "FRAME", hasFills |-> TRUE, fills |-> Mixed,
     hasStrokes |-> TRUE, strokes |-> <<"SOLID">>],
    [type |-> "VECTOR", hasFills |-> TRUE, fills |-> <<"GRADIENT_LINEAR">>,
     hasStrokes |-> TRUE, strokes |-> <<"SOLID">>],
    [type |-> "VECTOR", hasFills |-> TRUE, fills |-> <<"SOLID", "SOLID">>,
     hasStrokes |-> TRUE, strokes |-> <<"SOLID">>],
    [type |-> "GROUP", hasFills |-> FALSE, fills |-> <<>>,
     hasStrokes |-> FALSE, strokes |-> <<>>] }

\* an unresolved IconInfo as phase 3 of scanForIcons builds it
IconInfo(id, name, size, page, status) ==
  [id |-> id, name |-> name, width |-> size[1], height |-> size[2],
   page |-> page, source |-> parseIconSource(name), status |-> status]

UnresolvedIcon(id, name, size, page) ==
  IconInfo(id, name, size, page, "unresolved")

\* page names
Page1Name == <<"P","a","g","e"," ","1">>
Page2Name == <<"P","a","g","e"," ","2">>

NoScore == [num |-> 0 - 1, den |-> 1]

SimInit ==
  /\ simIcon1 \in {UnresolvedIcon(1, n, s, Page1Name) : n \in SimNames, s \in SimSizes}
  /\ simIcon2 \in {UnresolvedIcon(2, n, s, Page1Name) : n \in SimNames, s \in SimSizes}
  /\ simNodes \in [{1, 2} -> NodeSnapshots \cup {Null}]
  /\ simAB = NoScore
  /\ simBA = NoScore
  /\ simPc = "start"

SimIdle ==
  /\ simIcon1 = NoIcon /\ simIcon2 = NoIcon /\ simNodes = <<>>
  /\ simAB = NoScore /\ simBA = NoScore /\ simPc = "idle"

SimCallForward ==
  /\ simPc = "start"
  /\ simAB' = calculateIconSimilarity(simIcon1, simIcon2, simNodes)
  /\ simPc' = "forward"
  /\ UNCHANGED <<simIcon1, simIcon2, simNodes, simBA>>
  /\ UNCHANGED <<conVars, scanVars, sideVars>>

SimCallBackward ==
  /\ simPc = "forward"
  /\ simBA' = calculateIconSimilarity(simIcon2, simIcon1, simNodes)
  /\ simPc' = "done"
  /\ UNCHANGED <<simIcon1, simIcon2, simNodes, simAB>>
  /\ UNCHANGED <<conVars, scanVars, sideVars>>

\* no createComponentFrom... call in progress.  component, member, count and
\* pages are the call's locals (component, the loop position,
\* successfulReplacements, result.pagesAffected); the other fields are a
\* record of what the call did: the tree it started from, the members it
\* counted, those whose replaceWithInstance threw, those whose fallback
\* block it entered, those the fallback removed, those its loop reached, and
\* whether a tree call failed or the user deleted a node meanwhile
NoTx ==
  [component |-> 0, member |-> 0, count |-> 0, pages |-> {}, before |-> <<>>,
   counted |-> {}, failed |-> {}, fallback |-> {}, cleaned |-> {},
   visited |-> {}, faulted |-> FALSE]

NoLastTx == [kind |-> "none"]

\* the counters of consolidateSimilarIcons before its processing loops
RunIdle ==
  /\ libraryPage = 0
  /\ groupsToProcess = <<>> /\ singleIcons = <<>>
  /\ componentsCreated = 0 /\ iconsReplaced = 0 /\ failedOperations = 0
  /\ pagesAffected = {}
  /\ tx = NoTx /\ lastTx = NoLastTx
  /\ faults = 0

ScanIdle ==
  /\ scanPc = "idle" /\ pageIndex = 0 /\ pagesToScan = <<>>
  /\ allIcons = <<>> /\ masterComponentIds = {} /\ ignoredIcons = {}
  /\ scanResult = Null /\ visited = {}

\* the entry 'ignoredIcons' of figma.clientStorage: never written, or the
\* array written last
NoEntry == [written |-> FALSE, ids |-> {}]
Entry(ids) == [written |-> TRUE, ids |-> ids]

\* nothing stored, no classifier call made, no replace-with-instance
\* request received
NoRwiReq == [unresolved |-> 0, master |-> 0, node |-> Null]

\* no consolidate-library-duplicates request received
LibIdle ==
  /\ libPc = "idle" /\ libGroups = <<>>
  /\ duplicatesRemoved = 0 /\ libErrors = 0 /\ libGone = {}

\* let lastKnownPageId = figma.currentPage.id; let pageChangeTimer = null
DebounceIdle ==
  /\ lastKnownPageId = currentPage
  /\ timerHandle = 0 /\ timers = {} /\ autoScans = {}

HandlersIdle ==
  /\ LibIdle /\ firstRun = Null /\ secondRun = FALSE
  /\ DebounceIdle
  /\ ignoreCalls = <<>>

\* all but the stored entry
SideQuiet ==
  /\ storageFailed = FALSE /\ scanAuto = FALSE /\ pageChangeTimer = FALSE
  /\ classCalls = <<>>
  /\ rwiPc = "idle" /\ rwiReq = NoRwiReq /\ rwiDuring = "none"
  /\ HandlersIdle

SideIdle == storedIgnored = NoEntry /\ SideQuiet

RequestIdle ==
  /\ reqIcons = <<>> /\ reqScope = "all-pages" /\ reqPageName = <<>>
  /\ pc = "idle" /\ idx = 0
  /\ iconsToProcess = <<>> /\ validIcons = <<>>
  /\ iconGroups = <<>> /\ enhancedGroups = <<>>
  /\ processedIcons = {}
  /\ outbox = <<>>
  /\ RunIdle

ConIdle == tree = <<>> /\ currentPage = 0 /\ nextId = 0 /\ RequestIdle

\* ------------------------------------------------------------------------
\* The document tree
\* ------------------------------------------------------------------------
\* figma.getNodeByIdAsync
GetNodeById(t, id) == IF id \in DOMAIN t THEN t[id] ELSE Null

\* a node: GROUP and PAGE nodes have neither fills nor strokes.  main is
\* the id of an instance's main component (0: none), props stands for
\* rotation, opacity and visible, size is the absoluteBoundingBox (<<0, 0>>:
\* none)
MkNode(type, name, parent, fills, strokes) ==
  [type |-> type, name |-> name, parent |-> parent, children |-> <<>>,
   hasFills |-> type \notin {"GROUP", "PAGE"}, fills |-> fills,
   hasStrokes |-> type \notin {"GROUP", "PAGE"}, strokes |-> strokes,
   main |-> 0, x |-> 0, y |-> 0, props |-> 0,
   size |-> <<0, 0>>]

Range(seq) == {seq[i] : i \in DOMAIN seq}

\* id of figma.root
RootId == 100

\* in a scanned document the k-th page has id 1000 * k, its j-th node
\* 1000 * k + j
ScanPageId(k) == 1000 * k

\* parent.children.indexOf(child), counted from 0; -1 when absent
IndexOf(seq, x) ==
  IF x \in Range(seq)
    THEN (CHOOSE i \in DOMAIN seq :
            seq[i] = x /\ \A j \in 1..(i - 1) : seq[j] # x) - 1
    ELSE 0 - 1

Without(seq, x) == SelectSeq(seq, LAMBDA c : c # x)

InsertAt(seq, index, x) ==
  SubSeq(seq, 1, index) \o <<x>> \o SubSeq(seq, index + 1, Len(seq))

\* a node and everything below it
RECURSIVE Subtree(_, _)
Subtree(t, id) ==
  {id} \cup UNION {Subtree(t, t[id].children[i]) : i \in DOMAIN t[id].children}

\* node.remove(): the node and its subtree leave the document
RemoveNode(t, id) ==
  LET dead == Subtree(t, id)
      p == t[id].parent
  IN [n \in (DOMAIN t) \ dead |->
        IF n = p THEN [t[n] EXCEPT !.children = Without(@, id)] ELSE t[n]]

\* the node taken out of its parent's children, before it is placed again
Detach(t, id) ==
  LET p == t[id].parent
  IN IF p \in DOMAIN t
       THEN [t EXCEPT ![p].children = Without(@, id)]
       ELSE t

\* parent.appendChild(child)
AppendChild(t, parent, child) ==
  [Detach(t, child) EXCEPT ![parent].children = Append(@, child),
                           ![child].parent = parent]

\* a variant that places the child after its siblings
InsertChild_AtEnd(t, parent, index, child) ==
  [Detach(t, child) EXCEPT ![parent].children = Append(@, child),
                           ![child].parent = parent]

\* parent.insertChild(index, child)
InsertChild(t, parent, index, child) ==
  [Detach(t, child) EXCEPT ![parent].children = InsertAt(@, index, child),
                           ![child].parent = parent]

\* a node the plugin API creates: it starts as the last child of
\* figma.currentPage
PlaceNew(t, cur, id, node) ==
  LET t1 == [n \in (DOMAIN t) \cup {id} |->
               IF n = id THEN [node EXCEPT !.parent = cur] ELSE t[n]]
  IN [t1 EXCEPT ![cur].children = Append(@, id)]

\* the id of the copy of a node below a cloned node: the clone's id
\* followed by the node's own
CopyId(id, newId, n) == IF n = id THEN newId ELSE newId * 10000 + n

\* node.clone(): a copy of the node and of everything below it, placed as
\* the last child of figma.currentPage
CloneNode(t, cur, id, newId) ==
  LET originals == Subtree(t, id)
      OriginalOf(c) == CHOOSE n \in originals : CopyId(id, newId, n) = c
      copies == {CopyId(id, newId, n) : n \in originals}
      t1 == [c \in (DOMAIN t) \cup copies |->
               IF c \in DOMAIN t THEN t[c]
               ELSE LET n == OriginalOf(c)
                    IN [t[n] EXCEPT
                          !.parent = IF n = id THEN cur
                                     ELSE CopyId(id, newId, t[n].parent),
                          !.children = [i \in DOMAIN t[n].children |->
                                          CopyId(id, newId, t[n].children[i])]]]
  IN [t1 EXCEPT ![cur].children = Append(@, newId)]

\* figma.createComponent()
CreateComponent(t, cur, newId) ==
  PlaceNew(t, cur, newId, MkNode("COMPONENT", <<>>, cur, <<>>, <<>>))

\* component.createInstance()
CreateInstance(t, cur, component, newId) ==
  PlaceNew(t, cur, newId,
           [MkNode("INSTANCE", t[component].name, cur, t[component].fills,
                   t[component].strokes)
              EXCEPT !.main = component, !.size = t[component].size])

\* ------------------------------------------------------------------------
\* DuplicateClusterer: the grouping passes of consolidateSimilarIcons
\* ------------------------------------------------------------------------
DigitSeq == <<"0","1","2","3","4","5","6","7","8","9">>

\* template-literal conversion of a non-negative integer
RECURSIVE NumberToString(_)
NumberToString(n) ==
  IF n < 10 THEN <<DigitSeq[n + 1]>>
  ELSE NumberToString(n \div 10) \o <<DigitSeq[(n % 10) + 1]>>

\* Math.round(v / 8) * 8 for a non-negative integer v
RoundTo8(v) == ((v + 4) \div 8) * 8

sizeGroup(icon) ==
  NumberToString(RoundTo8(icon.width)) \o <<"x">>
    \o NumberToString(RoundTo8(icon.height))

normalizedName(icon) ==
  IF libraryPattern(icon.name) > 0
    THEN ToLowerCase(LibraryPart(icon.name)) \o <<"/">>
           \o normalize(IconPart(icon.name))
    ELSE normalize(icon.name)

groupKey(icon) ==
  normalizedName(icon) \o <<"_">> \o sizeGroup(icon) \o <<"_">>
    \o icon.source \o <<"_">> \o icon.page

\* a Map as the sequence of its entries [key, group] in insertion order
MapHas(m, k) == \E i \in DOMAIN m : m[i].key = k
MapIndex(m, k) == CHOOSE i \in DOMAIN m : m[i].key = k
MapGet(m, k) == m[MapIndex(m, k)].group
MapSet(m, k, g) ==
  IF MapHas(m, k)
    THEN [m EXCEPT ![MapIndex(m, k)].group = g]
    ELSE Append(m, [key |-> k, group |-> g])

\* icons.filter(status === 'unresolved'), then the scope filter
ScopeFilter(icons, scope, currentPageName) ==
  LET unresolved == SelectSeq(icons, LAMBDA icon : icon.status = "unresolved")
  IN IF scope = "current-page" /\ currentPageName # <<>>
       THEN SelectSeq(unresolved, LAMBDA icon : icon.page = currentPageName)
       ELSE unresolved

\* the validation loop keeps an icon whose node resolves and is not a page
IsValidIcon(t, icon) ==
  GetNodeById(t, icon.id) # Null /\ GetNodeById(t, icon.id).type # "PAGE"

\* first pass: validIcons.forEach(icon => iconGroups.get(groupKey).push(icon))
RECURSIVE FirstPass(_, _, _)
FirstPass(icons, i, groups) ==
  IF i > Len(icons) THEN groups
  ELSE LET k == groupKey(icons[i])
           g == IF MapHas(groups, k) THEN MapGet(groups, k) ELSE <<>>
       IN FirstPass(icons, i + 1, MapSet(groups, k, Append(g, icons[i])))

\* the groups of more than one icon are kept as they are
SeedGroups(groups) == SelectSeq(groups, LAMBDA e : Len(e.group) > 1)

\* a variant that forgets to mark the kept groups' icons as processed
SeedProcessed_Unmarked(groups) == {}

\* initialGroup.forEach(icon => processedIcons.add(icon.id)) for kept groups
SeedProcessed(groups) ==
  UNION { {icon.id : icon \in Range(groups[i].group)} :
          i \in {g \in DOMAIN groups : Len(groups[g].group) > 1} }

\* if (similarity > 70 && ...)
MergeThresholdMet(similarity) == ScoreAbove(similarity, 70)

NoMatch == [found |-> FALSE, groupKey |-> <<>>, similarity |-> NoScore]

\* the inner loop of the second pass over enhancedGroups.entries()
RECURSIVE FindBestMatch(_, _, _, _, _)
FindBestMatch(singleIcon, eg, t, i, bestMatch) ==
  IF i > Len(eg) THEN bestMatch
  ELSE LET existingGroup == eg[i].group
           representative == existingGroup[1]
       IN IF Len(existingGroup) <= 1 \/ singleIcon.page # representative.page
            THEN FindBestMatch(singleIcon, eg, t, i + 1, bestMatch)
            ELSE LET similarity ==
                       calculateIconSimilarity(singleIcon, representative, t)
                 IN IF /\ MergeThresholdMet(similarity)
                       /\ \/ ~bestMatch.found
                          \/ ScoreGreater(similarity, bestMatch.similarity)
                      THEN FindBestMatch(singleIcon, eg, t, i + 1,
                             [found |-> TRUE, groupKey |-> eg[i].key,
                              similarity |-> similarity])
                      ELSE FindBestMatch(singleIcon, eg, t, i + 1, bestMatch)

SinglePrefix == <<"s","i","n","g","l","e","_">>
FallbackPrefix == <<"f","a","l","l","b","a","c","k","_">>

\* the final loop: any icon not yet processed gets a group of its own
RECURSIVE Reconcile(_, _, _, _)
Reconcile(icons, i, eg, processed) ==
  IF i > Len(icons) THEN eg
  ELSE IF icons[i].id \in processed
         THEN Reconcile(icons, i + 1, eg, processed)
         ELSE Reconcile(icons, i + 1,
                        MapSet(eg, FallbackPrefix \o NumberToString(icons[i].id),
                               <<icons[i]>>),
                        processed \cup {icons[i].id})

ReconcileProcessed(icons, processed) ==
  processed \cup {icons[i].id : i \in DOMAIN icons}

Progress(num, den) ==
  [type |-> "consolidation-progress", num |-> num, den |-> den]

\* consolidateSimilarIcons up to the first await: the filters
ConStart ==
  /\ pc = "request"
  /\ iconsToProcess' = ScopeFilter(reqIcons, reqScope, reqPageName)
  /\ IF Len(iconsToProcess') = 0
       THEN /\ pc' = "done"
            /\ outbox' = outbox \o <<Progress(0, 1),
                 [type |-> "consolidation-complete", componentsCreated |-> 0,
                  iconsReplaced |-> 0, pagesAffected |-> 0]>>
       ELSE /\ pc' = "validate"
            /\ outbox' = Append(outbox, Progress(0, 1))
  /\ idx' = 1
  /\ UNCHANGED <<treeVars, reqVars, validIcons, iconGroups, enhancedGroups,
                 processedIcons>>
  /\ UNCHANGED <<simVars, scanVars, sideVars, runVars, txVars>>

\* one iteration of the validation loop (one await getNodeByIdAsync)
ConValidate ==
  /\ pc = "validate"
  /\ idx <= Len(iconsToProcess)
  /\ validIcons' = IF IsValidIcon(tree, iconsToProcess[idx])
                     THEN Append(validIcons, iconsToProcess[idx])
                     ELSE validIcons
  /\ idx' = idx + 1
  /\ UNCHANGED <<treeVars, reqVars, iconsToProcess, iconGroups,
                 enhancedGroups, processedIcons, pc, outbox>>
  /\ UNCHANGED <<simVars, scanVars, sideVars, runVars, txVars>>

\* after validation: the first pass and the seeding of enhancedGroups
ConGroup ==
  /\ pc = "validate"
  /\ idx > Len(iconsToProcess)
  /\ IF Len(validIcons) = 0
       THEN /\ pc' = "done"
            /\ outbox' = Append(outbox,
                 [type |-> "consolidation-complete", componentsCreated |-> 0,
                  iconsReplaced |-> 0, pagesAffected |-> 0])
            /\ UNCHANGED <<iconGroups, enhancedGroups, processedIcons>>
       ELSE /\ pc' = "refine"
            /\ outbox' = outbox \o <<Progress(10, 1), Progress(20, 1)>>
            /\ iconGroups' = FirstPass(validIcons, 1, <<>>)
            /\ enhancedGroups' = SeedGroups(iconGroups')
            /\ processedIcons' = SeedProcessed(iconGroups')
  /\ idx' = 1
  /\ UNCHANGED <<treeVars, reqVars, iconsToProcess, validIcons>>
  /\ UNCHANGED <<simVars, scanVars, sideVars, runVars, txVars>>

\* one iteration of the second pass over iconGroups.entries()
ConRefine ==
  /\ pc = "refine"
  /\ idx <= Len(iconGroups)
  /\ LET initialGroup == iconGroups[idx].group
         singleIcon == initialGroup[1]
         bestMatch == FindBestMatch(singleIcon, enhancedGroups, tree, 1, NoMatch)
     IN IF Len(initialGroup) # 1 \/ singleIcon.id \in processedIcons
          THEN UNCHANGED <<enhancedGroups, processedIcons>>
          ELSE /\ processedIcons' = processedIcons \cup {singleIcon.id}
               /\ enhancedGroups' =
                    IF bestMatch.found
                      THEN MapSet(enhancedGroups, bestMatch.groupKey,
                                  Append(MapGet(enhancedGroups, bestMatch.groupKey),
                                         singleIcon))
                      ELSE MapSet(enhancedGroups,
                                  SinglePrefix \o iconGroups[idx].key,
                                  <<singleIcon>>)
  /\ idx' = idx + 1
  /\ UNCHANGED <<treeVars, reqVars, iconsToProcess, validIcons, iconGroups,
                 pc, outbox>>
  /\ UNCHANGED <<simVars, scanVars, sideVars, runVars, txVars>>

\* the reconciliation loop that follows the second pass
ConReconcile ==
  /\ pc = "refine"
  /\ idx > Len(iconGroups)
  /\ enhancedGroups' = Reconcile(validIcons, 1, enhancedGroups, processedIcons)
  /\ processedIcons' = ReconcileProcessed(validIcons, processedIcons)
  /\ pc' = "clustered"
  /\ idx' = 1
  /\ UNCHANGED <<treeVars, reqVars, iconsToProcess, validIcons, iconGroups,
                 outbox>>
  /\ UNCHANGED <<simVars, scanVars, sideVars, runVars, txVars>>

\* ------------------------------------------------------------------------
\* ConsolidationTransaction: createComponentFromIconGroup,
\* createComponentFromSingleIcon and replaceWithInstance
\* ------------------------------------------------------------------------
\* the name of the icon library page; its leading glyph is one element
LibraryPageName ==
  <<"U+1F3AF", " ", "I","c","o","n"," ","L","i","b","r","a","r","y">>

\* current.name.length + (current.name.includes('icon') ? 10 : 0)
NameScore(icon) ==
  Len(icon.name) + (IF Includes(icon.name, <<"i","c","o","n">>) THEN 10 ELSE 0)

\* a variant of the reduce that lets a later member of equal score win
RECURSIVE BestIconFrom_LastOnTies(_, _, _)
BestIconFrom_LastOnTies(group, i, best) ==
  IF i > Len(group) THEN best
  ELSE BestIconFrom_LastOnTies(group, i + 1,
         IF NameScore(group[i]) >= NameScore(best) THEN group[i] ELSE best)

\* group.reduce((best, current) => currentScore > bestScore ? current : best)
RECURSIVE BestIconFrom(_, _, _)
BestIconFrom(group, i, best) ==
  IF i > Len(group) THEN best
  ELSE BestIconFrom(group, i + 1,
         IF NameScore(group[i]) > NameScore(best) THEN group[i] ELSE best)

bestIcon(group) == BestIconFrom(group, 2, group[1])

\* the tree calls of each step that can throw; "none" is the run without
\* a failure
CreateFaults == {"none", "lookup", "clone", "createComponent", "appendChild"}
ReplaceFaults == {"none", "lookup", "createInstance", "insertChild", "remove"}
RemoveFaults == {"none", "lookup", "remove"}
Cost(fault) == IF fault = "none" THEN 0 ELSE 1

\* ------------------------------------------------------------------------
\* generateSmartIconName
\* ------------------------------------------------------------------------
NameSeparators == {"-", "_", " "}

\* the alternations of the prefix and suffix patterns, in order
MarkerWords == << <<"i","c","o","n">>, <<"i","c","o">>,
                  <<"s","y","m","b","o","l">>, <<"g","l","y","p","h">> >>
ShapeWords == << <<"v","e","c","t","o","r">>, <<"g","r","a","p","h","i","c">>,
                 <<"s","h","a","p","e">>, <<"e","l","e","m","e","n","t">> >>

\* the element of a set of one element: in {f(v) : v \in {e}} the value of
\* e is computed once
Only(set) == CHOOSE v \in set : TRUE

\* s without its longest prefix of characters of the class
DropLeading(s, class) ==
  LET kept == {i \in DOMAIN s : s[i] \notin class}
  IN IF kept = {} THEN <<>>
     ELSE SubSeq(s, CHOOSE i \in kept : \A j \in kept : i <= j, Len(s))

\* s without its longest suffix of characters of the class
DropTrailing(s, class) ==
  LET kept == {i \in DOMAIN s : s[i] \notin class}
  IN IF kept = {} THEN <<>>
     ELSE SubSeq(s, 1, CHOOSE i \in kept : \A j \in kept : i >= j)

\* .replace(/^(w1|w2|...)[-_\s]*/i, '')
StripPrefix(s, words) ==
  LET hits == {k \in DOMAIN words : MatchAt(ToLowerCase(s), 1, words[k])}
  IN IF hits = {} THEN s
     ELSE LET k == CHOOSE h \in hits : \A g \in hits : h <= g
          IN DropLeading(SubSeq(s, Len(words[k]) + 1, Len(s)), NameSeparators)

\* .replace(/[-_\s]*(w1|w2|...)$/i, ''): no word of either alternation ends
\* with another one
StripSuffix(s, words) ==
  LET hits == {k \in DOMAIN words :
                 /\ Len(words[k]) <= Len(s)
                 /\ MatchAt(ToLowerCase(s), Len(s) - Len(words[k]) + 1, words[k])}
  IN IF hits = {} THEN s
     ELSE LET k == CHOOSE h \in hits : TRUE
          IN DropTrailing(SubSeq(s, 1, Len(s) - Len(words[k])), NameSeparators)

\* .replace(/[class]+/g, by): every run of characters of the class becomes
\* by; a character of the class is kept, as by, where it begins a run
ReplaceRuns(s, class, by) ==
  LET starts == {i \in DOMAIN s :
                   s[i] \notin class \/ i = 1 \/ s[i - 1] \notin class}
      kept == SelectSeq([i \in DOMAIN s |-> i], LAMBDA i : i \in starts)
  IN [k \in DOMAIN kept |-> IF s[kept[k]] \in class THEN by ELSE s[kept[k]]]

Trim(s) == DropTrailing(DropLeading(s, {" "}), {" "})

\* split(' '), word.charAt(0).toUpperCase() + word.slice(1).toLowerCase(),
\* join(' ')
ProperCase(s) ==
  [i \in DOMAIN s |->
     IF i = 1 \/ s[i - 1] = " " THEN UpperChar(s[i]) ELSE LowerChar(s[i])]

GenericNames == { <<"i","c","o","n">>, <<"e","l","e","m","e","n","t">>,
                  <<"s","h","a","p","e">>, <<"g","r","a","p","h","i","c">> }

\* the name by the bounds: aspectRatio > 1.5, < 0.67, and the size classes
DescriptiveName(size) ==
  LET width == size[1]
      height == size[2]
      base == IF 10 * width > 15 * height THEN <<"W","i","d","e">>
              ELSE IF 100 * width < 67 * height THEN <<"T","a","l","l">>
              ELSE <<"S","q","u","a","r","e">>
      class == IF Max(width, height) <= 16 THEN <<" ","S","m","a","l","l">>
               ELSE IF Max(width, height) >= 64 THEN <<" ","L","a","r","g","e">>
               ELSE <<>>
  IN base \o <<" ","I","c","o","n">> \o class

ValidNameChars == LowerSet \cup UpperSet \cup DigitSet \cup {" ", "-", "_", "/"}

\* the four replacements of prefixes and suffixes, then the clean-up
CleanedName(name) ==
  Only({ Trim(r) :
         r \in { ReplaceRuns(s4, NameSeparators, " ") :
           s4 \in { StripSuffix(s3, ShapeWords) :
             s3 \in { StripPrefix(s2, ShapeWords) :
               s2 \in { StripSuffix(s1, MarkerWords) :
                 s1 \in { StripPrefix(name, MarkerWords) } } } } } })

\* a name that is short or generic is replaced by one from the bounds
DescribedName(cleaned, size) ==
  IF (Len(cleaned) < 3 \/ ToLowerCase(cleaned) \in GenericNames)
       /\ size # <<0, 0>>
    THEN DescriptiveName(size)
    ELSE cleaned

\* .replace(/^[^a-zA-Z]+/, '').replace(/[^a-zA-Z0-9\s\-_\/]/g, '') and
\* the fallback
ValidName(proper, stamp) ==
  LET letters == {i \in DOMAIN proper : proper[i] \in LowerSet \cup UpperSet}
      valid == IF letters = {} THEN <<>>
               ELSE KeepChars(SubSeq(proper,
                                     CHOOSE i \in letters :
                                       \A j \in letters : i <= j,
                                     Len(proper)),
                              ValidNameChars)
  IN IF Len(valid) < 2 THEN <<"I","c","o","n"," ">> \o stamp ELSE valid

\* the library-style branch
LibraryStyleName(name) ==
  LibraryPart(name) \o <<"/">>
    \o Only({ Trim(ReplaceRuns(r, {" "}, "-")) :
              r \in {ReplaceRuns(IconPart(name), {"-", "_"}, "-")} })

SmartName(name, size, stamp) ==
  IF libraryPattern(name) > 0 THEN LibraryStyleName(name)
  ELSE Only({ ValidName(proper, stamp) :
              proper \in { ProperCase(described) :
                described \in { DescribedName(cleaned, size) :
                  cleaned \in {CleanedName(name)} } } })

\* generateSmartIconName; stamp is Date.now().toString().slice(-4)
generateSmartIconName(node, stamp) ==
  Only({ SmartName(name, size, stamp) :
         name \in {node.name}, size \in {node.size} })

\* values of Date.now().toString().slice(-4)
Timestamps == { <<"0","0","4","2">>, <<"9","9","9","9">> }

\* component.x = col * gridSize; component.y = row * gridSize
GridPlace(t, component, gridPosition) ==
  [t EXCEPT ![component].x = (gridPosition % 10) * 80,
            ![component].y = (gridPosition \div 10) * 80]

\* the first half of both createComponentFrom... functions: look the node
\* up, clone it, wrap the clone in a component on the library page.
\* component is 0 when the function returned or threw before that
CreateMaster(t, nid, cur, iconId, lib, gridPosition, fault, stamp) ==
  LET originalNode == GetNodeById(t, iconId)
  IN IF fault = "lookup" \/ originalNode = Null \/ originalNode.type = "PAGE"
       THEN [tree |-> t, nextId |-> nid, component |-> 0]
     ELSE IF fault = "clone"
       THEN [tree |-> t, nextId |-> nid, component |-> 0]
     ELSE LET cloned == CloneNode(t, cur, iconId, nid)
          IN IF cloned[nid].type = "COMPONENT"
               THEN IF fault = "appendChild"
                      THEN [tree |-> cloned, nextId |-> nid + 1, component |-> 0]
                      ELSE [tree |-> GridPlace(AppendChild(cloned, lib, nid),
                                               nid, gridPosition),
                            nextId |-> nid + 1, component |-> nid]
             ELSE IF fault = "createComponent"
               THEN [tree |-> cloned, nextId |-> nid + 1, component |-> 0]
             ELSE LET created == CreateComponent(cloned, cur, nid + 1)
                      made == [created EXCEPT
                                 ![nid + 1].name =
                                   generateSmartIconName(cloned[nid], stamp),
                                 ![nid + 1].size = cloned[nid].size]
                      zeroed == [made EXCEPT ![nid].x = 0, ![nid].y = 0]
                      filled == AppendChild(zeroed, nid + 1, nid)
                  IN IF fault = "appendChild"
                       THEN [tree |-> filled, nextId |-> nid + 2,
                             component |-> 0]
                       ELSE [tree |-> GridPlace(AppendChild(filled, lib, nid + 1),
                                                nid + 1, gridPosition),
                             nextId |-> nid + 2, component |-> nid + 1]

\* a variant that goes on to the members whether or not a master was made
AfterCreate_Always(component) == "members"

\* if (!originalNode || ...) return result; and the outer catch: the member
\* loop is entered only with a component in hand
AfterCreate(component) == IF component = 0 THEN "return" ELSE "members"

\* replaceWithInstance: threw tells whether it re-threw an error
ReplaceWithInstance(t, nid, cur, iconId, component, fault) ==
  LET originalNode == GetNodeById(t, iconId)
  IN IF fault = "lookup" \/ originalNode = Null \/ originalNode.type = "PAGE"
       THEN [tree |-> t, nextId |-> nid, threw |-> TRUE]
     ELSE IF originalNode.type \in {"COMPONENT", "COMPONENT_SET"}
       THEN [tree |-> t, nextId |-> nid, threw |-> FALSE]
     ELSE LET parent == originalNode.parent
              index == IndexOf(t[parent].children, iconId)
          IN IF parent \notin DOMAIN t
               THEN [tree |-> t, nextId |-> nid, threw |-> TRUE]
             ELSE IF fault = "createInstance" \/ component \notin DOMAIN t
               THEN [tree |-> t, nextId |-> nid, threw |-> TRUE]
             ELSE LET created == CreateInstance(t, cur, component, nid)
                      instance ==
                        [created EXCEPT ![nid].x = originalNode.x,
                                        ![nid].y = originalNode.y,
                                        ![nid].props = originalNode.props]
                  IN IF fault = "insertChild"
                       THEN [tree |-> instance, nextId |-> nid + 1,
                             threw |-> TRUE]
                     ELSE LET inserted ==
                                IF index >= 0
                                  THEN InsertChild(instance, parent, index, nid)
                                  ELSE AppendChild(instance, parent, nid)
                          IN IF fault = "remove"
                               THEN [tree |-> inserted, nextId |-> nid + 1,
                                     threw |-> TRUE]
                               ELSE [tree |-> RemoveNode(inserted, iconId),
                                     nextId |-> nid + 1, threw |-> FALSE]

\* a variant that counts the representative without removing its node
SourceRemove_KeepsNode(t, iconId, fault) == [tree |-> t, removed |-> TRUE]

\* the representative's branch of the member loop
SourceRemove(t, iconId, fault) ==
  LET sourceNode == GetNodeById(t, iconId)
  IN IF /\ fault = "none"
        /\ sourceNode # Null
        /\ sourceNode.type \notin {"PAGE", "COMPONENT"}
       THEN [tree |-> RemoveNode(t, iconId), removed |-> TRUE]
       ELSE [tree |-> t, removed |-> FALSE]

\* the manual removal in the catch block of a failed replacement: entered
\* tells that the block ran, removed that its remove() call completed
FallbackRemove(t, iconId, fault) ==
  LET failedNode == GetNodeById(t, iconId)
  IN IF fault = "none" /\ failedNode # Null /\ failedNode.type # "PAGE"
       THEN [tree |-> RemoveNode(t, iconId), entered |-> TRUE, removed |-> TRUE]
       ELSE [tree |-> t, entered |-> TRUE, removed |-> FALSE]

\* what the member loop does with a member: the outcome of its rewrite and,
\* when that threw, of the fallback
RewriteMember(t, nid, cur, iconId, component, fault, cleanup) ==
  LET replaced == ReplaceWithInstance(t, nid, cur, iconId, component, fault)
      fallback == FallbackRemove(replaced.tree, iconId, cleanup)
  IN IF replaced.threw
       THEN [tree |-> fallback.tree, nextId |-> replaced.nextId, threw |-> TRUE,
             entered |-> fallback.entered, removed |-> fallback.removed]
       ELSE [tree |-> replaced.tree, nextId |-> replaced.nextId,
             threw |-> FALSE, entered |-> FALSE, removed |-> FALSE]

\* a variant in which a member's failure leaves the member loop
LoopEnds_AtFailure(member, group, threw) == member = Len(group) \/ threw

\* for (const iconToReplace of group) with the try/catch inside the loop
\* body: the loop ends after the last member, whatever happened to one
LoopEnds(member, group, threw) == member = Len(group)

\* ------------------------------------------------------------------------
\* consolidateSimilarIcons: the processing loops
\* ------------------------------------------------------------------------
\* a variant that reports the replaced icons as the components created
CompletionMessage_CountsIcons(cc, ir, pa, fo) ==
  [type |-> "consolidation-complete", componentsCreated |-> ir,
   iconsReplaced |-> ir, pagesAffected |-> Cardinality(pa),
   failedOperations |-> fo]

CompletionMessage(cc, ir, pa, fo) ==
  [type |-> "consolidation-complete", componentsCreated |-> cc,
   iconsReplaced |-> ir, pagesAffected |-> Cardinality(pa),
   failedOperations |-> fo]

\* where the handler stands once `done` operations have been processed
LoopPc(done, groups, singles) ==
  IF done < Len(groups) THEN "groups"
  ELSE IF done < Len(groups) + Len(singles) THEN "singles"
  ELSE "done"

\* a variant that leaves out the base of 30
OperationProgress_WithoutBase(processed, total) ==
  Progress(50 * processed, total)

\* percentage: 30 + (processedOperations / totalOperations) * 50
OperationProgress(processed, total) ==
  Progress(30 * total + 50 * processed, total)

\* figma.root.children.find(page => page.name === LibraryPageName)
FindLibraryPage(t) ==
  LET hits == {i \in DOMAIN t[RootId].children :
                 t[t[RootId].children[i]].name = LibraryPageName}
  IN IF hits = {} THEN 0
     ELSE t[RootId].children[CHOOSE i \in hits : \A j \in hits : i <= j]

\* figma.createPage() and the assignment of its name
CreatePage(t, newId, name) ==
  [n \in (DOMAIN t) \cup {newId} |->
     IF n = newId THEN MkNode("PAGE", name, RootId, <<>>, <<>>)
     ELSE IF n = RootId THEN [t[n] EXCEPT !.children = Append(@, newId)]
     ELSE t[n]]

GroupsOf(eg) ==
  LET multi == SelectSeq(eg, LAMBDA e : Len(e.group) > 1)
  IN [i \in DOMAIN multi |-> multi[i].group]

SinglesOf(eg) ==
  LET single == SelectSeq(eg, LAMBDA e : Len(e.group) <= 1)
  IN [i \in DOMAIN single |-> single[i].group[1]]

\* after the reconciliation: split the clusters, find or create the
\* library page; a createPage that throws ends the run in the outer catch
ConPrepare ==
  /\ pc = "clustered"
  /\ groupsToProcess' = GroupsOf(enhancedGroups)
  /\ singleIcons' = SinglesOf(enhancedGroups)
  /\ \E fault \in {"none", "createPage"} :
       /\ Cost(fault) <= faults
       /\ fault = "createPage" => FindLibraryPage(tree) = 0
       /\ faults' = faults - Cost(fault)
       /\ IF fault = "createPage"
            THEN /\ pc' = "done"
                 /\ outbox' = Append(outbox, [type |-> "consolidation-error"])
                 /\ UNCHANGED <<tree, nextId, libraryPage>>
            ELSE /\ IF FindLibraryPage(tree) # 0
                      THEN /\ libraryPage' = FindLibraryPage(tree)
                           /\ UNCHANGED <<tree, nextId>>
                      ELSE /\ libraryPage' = nextId
                           /\ tree' = CreatePage(tree, nextId, LibraryPageName)
                           /\ nextId' = nextId + 1
                 /\ pc' = LoopPc(0, groupsToProcess', singleIcons')
                 /\ outbox' =
                      IF pc' = "done"
                        THEN Append(outbox, CompletionMessage(0, 0, {}, 0))
                        ELSE outbox
  /\ idx' = 1
  /\ UNCHANGED <<currentPage, reqVars, groupVars, componentsCreated,
                 iconsReplaced, failedOperations, pagesAffected, tx, lastTx>>
  /\ UNCHANGED <<simVars, scanVars, sideVars>>

\* the cluster the operation with number idx works on
CurrentGroup ==
  IF idx <= Len(groupsToProcess)
    THEN groupsToProcess[idx]
    ELSE <<singleIcons[idx - Len(groupsToProcess)]>>

\* what both loops of consolidateSimilarIcons do with a returned result,
\* and, after the last operation, the completion message
ReturnToLoop(kind, call, result, posted) ==
  /\ lastTx' = [kind |-> kind, group |-> CurrentGroup,
                component |-> call.component, before |-> call.before,
                after |-> tree', counted |-> call.counted,
                failed |-> call.failed, fallback |-> call.fallback,
                cleaned |-> call.cleaned, visited |-> call.visited, faulted |-> call.faulted,
                result |-> result]
  /\ tx' = NoTx
  /\ IF result.success
       THEN /\ componentsCreated' = componentsCreated + 1
            /\ iconsReplaced' = iconsReplaced + result.iconsReplaced
            /\ pagesAffected' = pagesAffected \cup result.pagesAffected
            /\ UNCHANGED failedOperations
       ELSE /\ failedOperations' = failedOperations + 1
            /\ UNCHANGED <<componentsCreated, iconsReplaced, pagesAffected>>
  /\ pc' = LoopPc(idx, groupsToProcess, singleIcons)
  /\ idx' = idx + 1
  /\ outbox' =
       IF pc' = "done"
         THEN Append(posted, CompletionMessage(componentsCreated', iconsReplaced',
                                               pagesAffected', failedOperations'))
         ELSE posted

FailedResult == [success |-> FALSE, iconsReplaced |-> 0, pagesAffected |-> {}]

\* one loop iteration up to the member loop: the progress message and the
\* creation of the master from the node of `icon`
BeginOperation(kind, icon, memberPc) ==
  \E fault \in CreateFaults, stamp \in Timestamps :
    /\ Cost(fault) <= faults
    /\ faults' = faults - Cost(fault)
    /\ LET made == CreateMaster(tree, nextId, currentPage, icon.id,
                                libraryPage, componentsCreated, fault, stamp)
           call == [NoTx EXCEPT !.component = made.component, !.member = 1,
                                !.before = tree, !.faulted = (fault # "none")]
           posted == Append(outbox,
                       OperationProgress(idx - 1, Len(groupsToProcess)
                                                  + Len(singleIcons)))
       IN /\ tree' = made.tree
          /\ nextId' = made.nextId
          /\ IF AfterCreate(made.component) = "return"
               THEN ReturnToLoop(kind, call, FailedResult, posted)
               ELSE /\ pc' = memberPc
                    /\ tx' = call
                    /\ outbox' = posted
                    /\ UNCHANGED <<idx, lastTx, componentsCreated,
                                   iconsReplaced, failedOperations,
                                   pagesAffected>>
    /\ UNCHANGED <<currentPage, libraryPage, groupsToProcess, singleIcons,
                   reqVars, groupVars>>
    /\ UNCHANGED <<simVars, scanVars, sideVars>>

\* createComponentFromIconGroup up to its member loop
GroupBegin ==
  /\ pc = "groups"
  /\ BeginOperation("group", bestIcon(CurrentGroup), "members")

\* the representative's branch calls neither replaceWithInstance nor the
\* fallback
NoRewrite == [threw |-> FALSE, entered |-> FALSE, removed |-> FALSE]

\* the call's record after the loop iteration of a member
MemberDone(call, icon, counted, outcome, faulted) ==
  [call EXCEPT
     !.member = @ + 1,
     !.count = IF counted THEN @ + 1 ELSE @,
     !.pages = IF counted THEN @ \cup {icon.page} ELSE @,
     !.counted = IF counted THEN @ \cup {icon.id} ELSE @,
     !.failed = IF outcome.threw THEN @ \cup {icon.id} ELSE @,
     !.fallback = IF outcome.entered THEN @ \cup {icon.id} ELSE @,
     !.cleaned = IF outcome.removed THEN @ \cup {icon.id} ELSE @,
     !.visited = @ \cup {icon.id},
     !.faulted = @ \/ faulted]

\* a variant that reports success whatever was replaced
GroupResult_AlwaysSuccess(call) ==
  [success |-> TRUE, iconsReplaced |-> call.count,
   pagesAffected |-> call.pages]

\* if (successfulReplacements > 0) result.success = true
GroupResult(call) ==
  [success |-> call.count > 0, iconsReplaced |-> call.count,
   pagesAffected |-> call.pages]

\* one iteration of the member loop of createComponentFromIconGroup; after
\* the last member the function returns and the caller takes the result
GroupMember ==
  /\ pc = "members"
  /\ LET group == CurrentGroup
         icon == group[tx.member]
     IN \E fault \in ReplaceFaults, cleanup \in RemoveFaults :
          /\ Cost(fault) + Cost(cleanup) <= faults
          /\ faults' = faults - Cost(fault) - Cost(cleanup)
          /\ IF icon.id = bestIcon(group).id
               THEN /\ fault \in RemoveFaults
                    /\ cleanup = "none"
                    /\ LET source == SourceRemove(tree, icon.id, fault)
                           call == MemberDone(tx, icon, source.removed,
                                              NoRewrite, fault # "none")
                       IN /\ tree' = source.tree
                          /\ UNCHANGED nextId
                          /\ IF LoopEnds(tx.member, group, FALSE)
                               THEN ReturnToLoop("group", call,
                                                 GroupResult(call), outbox)
                               ELSE /\ tx' = call
                                    /\ UNCHANGED <<pc, idx, outbox, lastTx,
                                         componentsCreated, iconsReplaced,
                                         failedOperations, pagesAffected>>
               ELSE LET replaced == RewriteMember(tree, nextId, currentPage,
                                      icon.id, tx.component, fault, cleanup)
                        call == MemberDone(tx, icon, ~replaced.threw, replaced,
                                           fault # "none" \/ cleanup # "none")
                    IN /\ cleanup # "none" => replaced.threw
                       /\ tree' = replaced.tree
                       /\ nextId' = replaced.nextId
                       /\ IF LoopEnds(tx.member, group, replaced.threw)
                            THEN ReturnToLoop("group", call, GroupResult(call),
                                              outbox)
                            ELSE /\ tx' = call
                                 /\ UNCHANGED <<pc, idx, outbox, lastTx,
                                      componentsCreated, iconsReplaced,
                                      failedOperations, pagesAffected>>
  /\ UNCHANGED <<currentPage, libraryPage, groupsToProcess, singleIcons,
                 reqVars, groupVars>>
  /\ UNCHANGED <<simVars, scanVars, sideVars>>

\* createComponentFromSingleIcon up to its replaceWithInstance call
SingleBegin ==
  /\ pc = "singles"
  /\ BeginOperation("single", CurrentGroup[1], "singleReplace")

\* result.iconsReplaced = 1; result.success = true, or neither
SingleResult(call) ==
  [success |-> call.count > 0, iconsReplaced |-> call.count,
   pagesAffected |-> call.pages]

\* the rest of createComponentFromSingleIcon and the caller's bookkeeping
SingleReplace ==
  /\ pc = "singleReplace"
  /\ LET icon == CurrentGroup[1]
     IN \E fault \in ReplaceFaults, cleanup \in RemoveFaults :
          /\ Cost(fault) + Cost(cleanup) <= faults
          /\ faults' = faults - Cost(fault) - Cost(cleanup)
          /\ LET replaced == RewriteMember(tree, nextId, currentPage, icon.id,
                                           tx.component, fault, cleanup)
                 call == MemberDone(tx, icon, ~replaced.threw, replaced,
                                    fault # "none" \/ cleanup # "none")
             IN /\ cleanup # "none" => replaced.threw
                /\ tree' = replaced.tree
                /\ nextId' = replaced.nextId
                /\ ReturnToLoop("single", call, SingleResult(call), outbox)
  /\ UNCHANGED <<currentPage, libraryPage, groupsToProcess, singleIcons,
                 reqVars, groupVars>>
  /\ UNCHANGED <<simVars, scanVars, sideVars>>

\* while the handler is suspended at an await the user deletes the node of
\* a candidate
UserDeletes ==
  /\ pc \in {"validate", "refine", "clustered", "groups", "members",
             "singles", "singleReplace"}
  /\ faults > 0
  /\ \E i \in DOMAIN reqIcons :
       /\ reqIcons[i].id \in DOMAIN tree
       /\ tree' = RemoveNode(tree, reqIcons[i].id)
  /\ faults' = faults - 1
  /\ tx' = IF pc \in {"members", "singleReplace"}
             THEN [tx EXCEPT !.faulted = TRUE]
             ELSE tx
  /\ UNCHANGED <<currentPage, nextId, reqVars, groupVars, runVars, lastTx,
                 pc, idx, outbox>>
  /\ UNCHANGED <<simVars, scanVars, sideVars>>

\* ------------------------------------------------------------------------
\* NodeClassifier: isIconComponent and isLikelyIcon
\* ------------------------------------------------------------------------
\* node.absoluteBoundingBox is not null
HasBounds(node) == node.size # <<0, 0>>

\* the iconKeywords of isIconComponent
iconKeywords ==
  { <<"i","c","o","n">>, <<"i","c","o">>, <<"s","y","m","b","o","l">>,
    <<"g","l","y","p","h">>, <<"p","i","c","t","o","g","r","a","m">>,
    <<"s","i","g","n">>, <<"m","a","r","k">>, <<"b","a","d","g","e">>,
    <<"a","r","r","o","w">>, <<"c","h","e","v","r","o","n">>,
    <<"s","t","a","r">>, <<"h","e","a","r","t">>, <<"h","o","m","e">>,
    <<"u","s","e","r">>, <<"m","e","n","u">>, <<"b","u","r","g","e","r">>,
    <<"s","e","a","r","c","h">>, <<"c","l","o","s","e">>,
    <<"c","h","e","c","k">>, <<"p","l","u","s">>, <<"m","i","n","u","s">>,
    <<"e","d","i","t">>, <<"d","e","l","e","t","e">>,
    <<"t","r","a","s","h">>, <<"s","e","t","t","i","n","g","s">>,
    <<"i","n","f","o">>, <<"w","a","r","n","i","n","g">>,
    <<"e","r","r","o","r">>, <<"s","u","c","c","e","s","s">>,
    <<"l","o","c","k">>, <<"u","n","l","o","c","k">>, <<"e","y","e">>,
    <<"b","e","l","l">>, <<"m","a","i","l">>, <<"p","h","o","n","e">>,
    <<"c","a","l","e","n","d","a","r">>, <<"c","l","o","c","k">>,
    <<"l","o","c","a","t","i","o","n">>, <<"p","i","n">>,
    <<"s","h","a","r","e">>, <<"d","o","w","n","l","o","a","d">>,
    <<"u","p","l","o","a","d">>, <<"s","a","v","e">>,
    <<"p","r","i","n","t">>, <<"c","o","p","y">>, <<"p","a","s","t","e">>,
    <<"u","n","d","o">>, <<"r","e","d","o">>,
    <<"r","e","f","r","e","s","h">>, <<"r","e","l","o","a","d">>,
    <<"s","y","n","c">>, <<"p","l","a","y">>, <<"p","a","u","s","e">>,
    <<"s","t","o","p">>, <<"b","a","c","k">>,
    <<"f","o","r","w","a","r","d">>, <<"n","e","x","t">>,
    <<"p","r","e","v">>, <<"u","p">>, <<"d","o","w","n">>,
    <<"l","e","f","t">>, <<"r","i","g","h","t">>,
    <<"e","x","p","a","n","d">>, <<"c","o","l","l","a","p","s","e">>,
    <<"z","o","o","m">>, <<"f","i","l","t","e","r">>, <<"s","o","r","t">>,
    <<"g","r","i","d">>, <<"l","i","s","t">>, <<"f","i","l","e">>,
    <<"f","o","l","d","e","r">>, <<"d","o","c","u","m","e","n","t">>,
    <<"i","m","a","g","e">>, <<"v","i","d","e","o">>,
    <<"a","u","d","i","o">>, <<"c","h","a","r","t">>,
    <<"g","r","a","p","h">>, <<"a","v","a","t","a","r">>,
    <<"p","r","o","f","i","l","e">>, <<"a","c","c","o","u","n","t">>,
    <<"c","o","n","t","a","c","t">>, <<"p","e","r","s","o","n">>,
    <<"p","e","o","p","l","e">>, <<"t","e","a","m">>,
    <<"n","o","t","i","f","i","c","a","t","i","o","n">>,
    <<"a","l","e","r","t">>, <<"m","e","s","s","a","g","e">>,
    <<"c","h","a","t">>, <<"c","o","m","m","e","n","t">>,
    <<"f","e","e","d","b","a","c","k">>,
    <<"d","a","s","h","b","o","a","r","d">>,
    <<"a","n","a","l","y","t","i","c","s">>, <<"s","t","a","t","s">>,
    <<"r","e","p","o","r","t">>, <<"d","a","t","a">>,
    <<"d","a","t","a","b","a","s","e">>, <<"c","l","o","u","d">>,
    <<"s","e","r","v","e","r">>, <<"n","e","t","w","o","r","k">>,
    <<"w","i","f","i">>, <<"b","l","u","e","t","o","o","t","h">>,
    <<"m","o","b","i","l","e">>, <<"d","e","s","k","t","o","p">>,
    <<"t","a","b","l","e","t">>, <<"d","e","v","i","c","e">>,
    <<"h","a","r","d","w","a","r","e">>, <<"s","o","f","t","w","a","r","e">>,
    <<"a","p","p">>, <<"a","p","p","l","i","c","a","t","i","o","n">>,
    <<"w","e","b","s","i","t","e">>, <<"w","e","b">>, <<"l","i","n","k">>,
    <<"u","r","l">>, <<"e","x","t","e","r","n","a","l">>,
    <<"i","n","t","e","r","n","a","l">>, <<"a","n","c","h","o","r">>,
    <<"b","o","o","k","m","a","r","k">>, <<"f","a","v","o","r","i","t","e">>,
    <<"l","i","k","e">>, <<"l","o","v","e">>, <<"t","h","u","m","b","s">>,
    <<"r","a","t","i","n","g">>, <<"c","a","r","t">>,
    <<"s","h","o","p","p","i","n","g">>, <<"s","t","o","r","e">>,
    <<"s","h","o","p">>, <<"b","u","y">>, <<"s","e","l","l">>,
    <<"p","a","y","m","e","n","t">>, <<"c","r","e","d","i","t">>,
    <<"c","a","r","d">>, <<"m","o","n","e","y">>,
    <<"d","o","l","l","a","r">>, <<"p","r","i","c","e">>,
    <<"c","o","s","t">>, <<"i","n","v","o","i","c","e">>,
    <<"r","e","c","e","i","p","t">>, <<"c","i","r","c","l","e">>,
    <<"s","q","u","a","r","e">>, <<"t","r","i","a","n","g","l","e">>,
    <<"d","i","a","m","o","n","d">>, <<"p","o","l","y","g","o","n">>,
    <<"s","h","a","p","e">>, <<"d","o","t">>, <<"b","u","l","l","e","t">>,
    <<"m","a","r","k","e","r">>, <<"p","o","i","n","t","e","r">>,
    <<"c","u","r","s","o","r">>, <<"t","a","r","g","e","t">>,
    <<"c","r","o","s","s","h","a","i","r">>,
    <<"f","a","c","e","b","o","o","k">>, <<"t","w","i","t","t","e","r">>,
    <<"i","n","s","t","a","g","r","a","m">>,
    <<"l","i","n","k","e","d","i","n">>, <<"y","o","u","t","u","b","e">>,
    <<"t","i","k","t","o","k">>, <<"g","i","t","h","u","b">>,
    <<"g","i","t","l","a","b">>, <<"s","l","a","c","k">>,
    <<"d","i","s","c","o","r","d">>, <<"t","e","l","e","g","r","a","m">>,
    <<"w","h","a","t","s","a","p","p">>, <<"g","o","o","g","l","e">>,
    <<"m","i","c","r","o","s","o","f","t">>, <<"a","p","p","l","e">>,
    <<"a","m","a","z","o","n">>, <<"a","w","s">>, <<"a","z","u","r","e">>,
    <<"m","e","t","a">>, <<"d","r","o","p","b","o","x">>,
    <<"s","p","o","t","i","f","y">>, <<"n","e","t","f","l","i","x">>,
    <<"a","d","o","b","e">>, <<"f","i","g","m","a">>,
    <<"s","k","e","t","c","h">>, <<"c","a","n","v","a">>,
    <<"t","e","a","m","s">>, <<"s","k","y","p","e">>,
    <<"w","e","b","e","x">>, <<"n","o","t","i","o","n">>,
    <<"c","o","n","f","l","u","e","n","c","e">>, <<"j","i","r","a">>,
    <<"t","r","e","l","l","o">>, <<"a","s","a","n","a">>,
    <<"m","o","n","d","a","y">>, <<"c","l","i","c","k","u","p">>,
    <<"b","a","s","e","c","a","m","p">>, <<"l","i","n","e","a","r">>,
    <<"s","a","l","e","s","f","o","r","c","e">>,
    <<"h","u","b","s","p","o","t">>, <<"m","a","i","l","c","h","i","m","p">>,
    <<"c","o","n","s","t","a","n","t">>,
    <<"s","e","n","d","i","n","b","l","u","e">>, <<"s","t","r","i","p","e">>,
    <<"p","a","y","p","a","l">>, <<"s","h","o","p","i","f","y">>,
    <<"w","o","o","c","o","m","m","e","r","c","e">>,
    <<"m","a","g","e","n","t","o">>, <<"w","o","r","d","p","r","e","s","s">>,
    <<"d","r","u","p","a","l">>,
    <<"s","q","u","a","r","e","s","p","a","c","e">>, <<"w","i","x">>,
    <<"w","e","b","f","l","o","w">>, <<"c","h","r","o","m","e">>,
    <<"f","i","r","e","f","o","x">>, <<"s","a","f","a","r","i">>,
    <<"e","d","g","e">>, <<"o","p","e","r","a">>, <<"b","r","a","v","e">>,
    <<"v","i","v","a","l","d","i">>, <<"a","n","d","r","o","i","d">>,
    <<"i","o","s">>, <<"w","i","n","d","o","w","s">>,
    <<"m","a","c","o","s">>, <<"l","i","n","u","x">>,
    <<"u","b","u","n","t","u">>, <<"v","s","c","o","d","e">>,
    <<"a","t","o","m">>, <<"s","u","b","l","i","m","e">>,
    <<"i","n","t","e","l","l","i","j">>, <<"p","y","c","h","a","r","m">>,
    <<"e","c","l","i","p","s","e">>, <<"d","o","c","k","e","r">>,
    <<"k","u","b","e","r","n","e","t","e","s">>,
    <<"j","e","n","k","i","n","s">>, <<"t","r","a","v","i","s">>,
    <<"c","i","r","c","l","e","c","i">>,
    <<"g","i","t","l","a","b","-","c","i">>, <<"n","p","m">>,
    <<"y","a","r","n">>, <<"p","i","p">>,
    <<"c","o","m","p","o","s","e","r">>, <<"m","a","v","e","n">>,
    <<"g","r","a","d","l","e">>, <<"i","n","t","e","r","c","o","m">>,
    <<"z","e","n","d","e","s","k">>,
    <<"f","r","e","s","h","w","o","r","k","s">>,
    <<"h","e","l","p","s","c","o","u","t">>, <<"c","r","i","s","p">>,
    <<"c","a","l","e","n","d","l","y">>, <<"a","c","u","i","t","y">>,
    <<"b","o","o","k","i","n","g">>, <<"d","o","o","d","l","e">>,
    <<"w","h","e","n","2","m","e","e","t">>,
    <<"m","i","x","p","a","n","e","l">>,
    <<"a","m","p","l","i","t","u","d","e">>, <<"h","o","t","j","a","r">>,
    <<"f","u","l","l","s","t","o","r","y">>, <<"s","e","g","m","e","n","t">>,
    <<"o","p","t","i","m","i","z","e","l","y">>,
    <<"a","b","-","t","e","s","t">>, <<"f","i","r","e","b","a","s","e">>,
    <<"s","u","p","a","b","a","s","e">>, <<"l","o","a","d","i","n","g">>,
    <<"s","p","i","n","n","e","r">>, <<"p","r","o","g","r","e","s","s">>,
    <<"c","o","m","p","l","e","t","e">>, <<"d","o","n","e">>,
    <<"f","i","n","i","s","h","e","d">>, <<"p","e","n","d","i","n","g">>,
    <<"w","a","i","t","i","n","g">>, <<"a","c","t","i","v","e">>,
    <<"i","n","a","c","t","i","v","e">>, <<"d","i","s","a","b","l","e","d">>,
    <<"e","n","a","b","l","e","d">>, <<"o","n","l","i","n","e">>,
    <<"o","f","f","l","i","n","e">>, <<"c","o","n","n","e","c","t","e","d">>,
    <<"d","i","s","c","o","n","n","e","c","t","e","d">>,
    <<"s","y","n","c","e","d">>, <<"l","u","c","i","d","e">>,
    <<"h","e","r","o","i","c","o","n","s">>, <<"f","e","a","t","h","e","r">>,
    <<"m","a","t","e","r","i","a","l">>,
    <<"f","o","n","t","a","w","e","s","o","m","e">>,
    <<"b","o","o","t","s","t","r","a","p">>, <<"t","a","b","l","e","r">>,
    <<"p","h","o","s","p","h","o","r">>, <<"r","e","m","i","x">>,
    <<"a","n","t">>, <<"c","a","r","b","o","n">>,
    <<"f","l","u","e","n","t">>, <<"e","v","a">> }

\* iconKeywords.some(keyword => name.includes(keyword))
isIconComponent(node) ==
  \E keyword \in iconKeywords : Includes(ToLowerCase(node.name), keyword)

\* the isUIComponent test of the COMPONENT / COMPONENT_SET branch
ComponentUIWords ==
  { <<"b","u","t","t","o","n">>,
    <<"i","n","p","u","t">>,
    <<"c","a","r","d">>,
    <<"m","o","d","a","l">>,
    <<"d","i","a","l","o","g">>,
    <<"f","o","r","m">>,
    <<"b","a","n","n","e","r">>,
    <<"n","a","v","b","a","r">>,
    <<"h","e","a","d","e","r">>,
    <<"f","o","o","t","e","r">>,
    <<"s","i","d","e","b","a","r">> }

\* the isUIComponent test of the INSTANCE branch
InstanceUIWords ==
  { <<"b","u","t","t","o","n">>,
    <<"i","n","p","u","t">>,
    <<"c","a","r","d">>,
    <<"m","o","d","a","l">>,
    <<"d","i","a","l","o","g">>,
    <<"d","r","o","p","d","o","w","n">>,
    <<"s","e","l","e","c","t">>,
    <<"c","h","e","c","k","b","o","x">>,
    <<"r","a","d","i","o">>,
    <<"t","o","g","g","l","e">>,
    <<"s","w","i","t","c","h">>,
    <<"s","l","i","d","e","r">>,
    <<"n","a","v","b","a","r">>,
    <<"h","e","a","d","e","r">>,
    <<"f","o","o","t","e","r">>,
    <<"s","i","d","e","b","a","r">>,
    <<"m","e","n","u">>,
    <<"t","a","b">>,
    <<"b","a","d","g","e">>,
    <<"c","h","i","p">>,
    <<"a","v","a","t","a","r">>,
    <<"f","o","r","m">>,
    <<"f","i","e","l","d">>,
    <<"b","a","n","n","e","r">>,
    <<"a","l","e","r","t">>,
    <<"n","o","t","i","f","i","c","a","t","i","o","n">> }

\* the name patterns of hasIconName, the same in the four branches
IconNamePatterns ==
  { <<"i","c","o","n">>,
    <<"/">>,
    <<"l","u","c","i","d","e">>,
    <<"f","e","a","t","h","e","r">>,
    <<"h","e","r","o","i","c","o","n">>,
    <<"m","a","t","e","r","i","a","l">>,
    <<"f","a","-">>,
    <<"f","i","-">> }

hasIconName(node) ==
  \/ \E pattern \in IconNamePatterns : Includes(ToLowerCase(node.name), pattern)
  \/ isIconComponent(node)

\* name.toLowerCase().startsWith('icon/')
isFromIconManagement(node) ==
  MatchAt(ToLowerCase(node.name), 1, <<"i","c","o","n","/">>)

\* the child types findChild looks for
VectorContentTypes ==
  {"VECTOR", "BOOLEAN_OPERATION", "GROUP", "ELLIPSE", "RECTANGLE", "POLYGON",
   "STAR"}

\* node.findChild(child => child.type === 'VECTOR' || ...): direct children
hasVectorContent(t, id) ==
  \E child \in Range(t[id].children) : t[child].type \in VectorContentTypes

\* commonIconSizes of the COMPONENT branch and standardIconSizes of the
\* FRAME branch
standardIconSizes ==
  {12, 14, 16, 18, 20, 22, 24, 28, 32, 36, 40, 44, 48, 56, 64, 72, 80, 96, 128}

\* commonIconSizes of the INSTANCE branch
instanceIconSizes ==
  {12, 14, 16, 18, 20, 22, 24, 28, 32, 36, 40, 44, 48, 56, 64, 72, 80}

\* sizes.some(s => Math.abs(width - s) <= 2 && Math.abs(height - s) <= 2)
MatchesBothSides(sizes, width, height) ==
  \E standardSize \in sizes :
    Abs(width - standardSize) <= 2 /\ Abs(height - standardSize) <= 2

\* The bounds are integers here, so a comparison of aspectRatio = width /
\* height with a decimal literal is the comparison of the cross products.
\* PRIORITY 1: a COMPONENT or COMPONENT_SET
ComponentLikely(t, id) ==
  LET node == t[id]
      name == ToLowerCase(node.name)
      width == node.size[1]
      height == node.size[2]
      size == Max(width, height)
      score ==
        (IF hasIconName(node) \/ isFromIconManagement(node) THEN 3 ELSE 0)
        + (IF size >= 6 /\ size <= 300 THEN 2
           ELSE IF size >= 6 /\ size <= 800 THEN 1 ELSE 0)
        + (IF 10 * width >= 3 * height /\ width <= 3 * height THEN 1 ELSE 0)
        + (IF hasVectorContent(t, id) THEN 1 ELSE 0)
        + (IF \E s \in standardIconSizes : Abs(size - s) <= 2 THEN 1 ELSE 0)
        + (IF 100 * width >= 95 * height /\ 100 * width <= 105 * height
             THEN 1 ELSE 0)
  IN IF \E word \in ComponentUIWords : Includes(name, word) THEN FALSE
     ELSE IF size > 800 THEN FALSE
     ELSE IF 20 * width < height \/ width > 20 * height THEN FALSE
     ELSE IF node.type = "COMPONENT_SET" THEN TRUE
     ELSE score >= 1

\* a variant of the INSTANCE branch that looks at the icon markers of the
\* name before it looks at the UI words
InstanceLikely_MarkersFirst(t, id) ==
  LET node == t[id]
      name == ToLowerCase(node.name)
  IN IF hasIconName(node) THEN TRUE
     ELSE ~(\E word \in InstanceUIWords : Includes(name, word))

\* PRIORITY 2: an INSTANCE
InstanceLikely(t, id) ==
  LET node == t[id]
      name == ToLowerCase(node.name)
      width == node.size[1]
      height == node.size[2]
      size == Max(width, height)
      named == hasIconName(node)
      managed == isFromIconManagement(node)
      score ==
        (IF named THEN 3 ELSE 0)
        + (IF managed THEN 2 ELSE 0)
        + (IF 100 * width >= 95 * height /\ 100 * width <= 105 * height
             THEN 2 ELSE 0)
        + (IF MatchesBothSides(instanceIconSizes, width, height) THEN 2 ELSE 0)
        + (IF size <= 64 THEN 1 ELSE 0)
        + (IF size <= 32 THEN 1 ELSE 0)
  IN IF \E word \in InstanceUIWords : Includes(name, word) THEN FALSE
     ELSE IF size > 120 /\ ~named /\ ~managed THEN FALSE
     ELSE IF size > 300 /\ ~managed THEN FALSE
     ELSE IF (named \/ managed)
               /\ (10 * width < 3 * height \/ width > 3 * height) THEN FALSE
     ELSE IF ~(named \/ managed)
               /\ (2 * width < height \/ width > 2 * height) THEN FALSE
     ELSE score >= 1

\* a variant of the FRAME branch without the test of the number of children
FrameLikely_AnyChildCount(t, id) ==
  LET node == t[id]
      width == node.size[1]
      height == node.size[2]
  IN IF 4 * width < 3 * height \/ 100 * width > 133 * height THEN FALSE
     ELSE IF ~MatchesBothSides(standardIconSizes, width, height) THEN FALSE
     ELSE hasVectorContent(t, id)

\* PRIORITY 3: a FRAME
FrameLikely(t, id) ==
  LET node == t[id]
      width == node.size[1]
      height == node.size[2]
  IN IF 4 * width < 3 * height \/ 100 * width > 133 * height THEN FALSE
     ELSE IF ~MatchesBothSides(standardIconSizes, width, height) THEN FALSE
     ELSE IF ~hasVectorContent(t, id) THEN FALSE
     ELSE IF Len(node.children) > 5 THEN FALSE
     ELSE TRUE

\* the while loop of the VECTOR branch: some ancestor below the page is a
\* FRAME with bounds, an aspect ratio in [0.5, 2] and a size of at most 200
RECURSIVE InsideIconFrame(_, _)
InsideIconFrame(t, parent) ==
  IF parent \notin DOMAIN t \/ t[parent].type = "PAGE" THEN FALSE
  ELSE IF /\ t[parent].type = "FRAME"
          /\ HasBounds(t[parent])
          /\ 2 * t[parent].size[1] >= t[parent].size[2]
          /\ t[parent].size[1] <= 2 * t[parent].size[2]
          /\ Max(t[parent].size[1], t[parent].size[2]) <= 200
         THEN TRUE
  ELSE InsideIconFrame(t, t[parent].parent)

\* PRIORITY 4: a VECTOR, BOOLEAN_OPERATION or GROUP
VectorLikely(t, id) ==
  LET node == t[id]
      width == node.size[1]
      height == node.size[2]
      size == Max(width, height)
  IN IF InsideIconFrame(t, node.parent) THEN FALSE
     ELSE /\ size >= 8 /\ size <= 200
          /\ 2 * width >= height /\ width <= 2 * height
          /\ hasIconName(node)

\* the body of the try block of isLikelyIcon
LikelyIconBody(t, id) ==
  IF ~HasBounds(t[id]) THEN FALSE
  ELSE IF t[id].type \in {"COMPONENT", "COMPONENT_SET"} THEN ComponentLikely(t, id)
  ELSE IF t[id].type = "INSTANCE" THEN InstanceLikely(t, id)
  ELSE IF t[id].type = "FRAME" THEN FrameLikely(t, id)
  ELSE IF t[id].type \in {"VECTOR", "BOOLEAN_OPERATION", "GROUP"}
    THEN VectorLikely(t, id)
  ELSE FALSE

\* a variant without the try block: a failing read leaves the function
\* as an exception
isLikelyIcon_Uncaught(t, id, fails) ==
  IF fails THEN [threw |-> TRUE, result |-> FALSE]
  ELSE [threw |-> FALSE, result |-> LikelyIconBody(t, id)]

\* a variant that consults the scanner's master set: a node tracked as a
\* master is not classified again
isLikelyIcon_SkipsTracked(t, id, fails) ==
  IF fails THEN [threw |-> FALSE, result |-> FALSE]
  ELSE [threw |-> FALSE,
        result |-> id \notin masterComponentIds /\ LikelyIconBody(t, id)]

\* isLikelyIcon: fails tells that a read of the node throws inside the try
\* block, which the catch block answers with false
isLikelyIcon(t, id, fails) ==
  IF fails THEN [threw |-> FALSE, result |-> FALSE]
  ELSE [threw |-> FALSE, result |-> LikelyIconBody(t, id)]

\* what isLikelyIcon reads of a node: the node, the types of its children
\* and its ancestors up to the page
RECURSIVE AncestorChain(_, _)
AncestorChain(t, parent) ==
  IF parent \notin DOMAIN t \/ t[parent].type = "PAGE" THEN <<>>
  ELSE <<t[parent]>> \o AncestorChain(t, t[parent].parent)

\* the ids of the ancestors of a node, from its parent up to the page
RECURSIVE AncestorIds(_, _)
AncestorIds(t, parent) ==
  IF parent \notin DOMAIN t \/ t[parent].type = "PAGE" THEN <<>>
  ELSE <<parent>> \o AncestorIds(t, t[parent].parent)

ClassifierView(t, id) ==
  [node |-> t[id],
   kids |-> [i \in DOMAIN t[id].children |-> t[t[id].children[i]].type],
   chain |-> AncestorChain(t, t[id].parent)]

\* a call of isLikelyIcon on a node of the document; it is recorded with
\* what the caller gets back, what the function could read, and where the
\* handlers stood
RecordCall(id, fails) ==
  classCalls' =
    Append(classCalls,
           [id |-> id, fails |-> fails,
            outcome |-> isLikelyIcon(tree, id, fails),
            view |-> ClassifierView(tree, id),
            during |-> <<pc, scanPc, rwiPc>>,
            seen |-> <<masterComponentIds, ignoredIcons>>])

ClassifyNode ==
  /\ \E id \in DOMAIN tree :
       \E fails \in BOOLEAN :
         /\ tree[id].type \notin {"DOCUMENT", "PAGE"}
         /\ RecordCall(id, fails)
  /\ UNCHANGED <<simVars, conVars, scanVars, storeVars, rwiVars,
                 handlerVars>>

\* the first call
ClassifyOnce ==
  /\ classCalls = <<>>
  /\ ClassifyNode

\* how many calls of isLikelyIcon a behaviour records
MaxCalls == 2

\* a call in which nothing fails, at any point between the steps of the
\* handlers, on a node that a handler has not created
ClassifyAgain ==
  /\ Len(classCalls) < MaxCalls
  /\ \E id \in DOMAIN tree :
       /\ tree[id].type \notin {"DOCUMENT", "PAGE"}
       /\ id > ScanPageId(1)
       /\ RecordCall(id, FALSE)
  /\ UNCHANGED <<simVars, conVars, scanVars, storeVars, rwiVars,
                 handlerVars>>

\* ------------------------------------------------------------------------
\* DiscoveryScanner: scanForIcons and the scan-icons handler
\* ------------------------------------------------------------------------
\* The caps of scanForIcons.  The source has MAX_ICONS = 2000, MAX_PAGES =
\* 100 and MAX_UNRESOLVED_PER_PAGE = 200; the scans are run with small caps
\* so that the documents that reach them stay small.  Every comparison with
\* a cap is the source's.
MAX_ICONS == 4
MAX_PAGES == 2
MAX_UNRESOLVED_PER_PAGE == 2

\* the archive glyph of the source: U+1F5C4 followed by U+FE0F
ArchiveGlyph == <<"U+1F5C4", "U+FE0F">>

\* a variant of the page filter without the 'old' pattern
isArchivePage_WithoutOld(name) ==
  LET pageName == ToLowerCase(name)
  IN \/ Includes(pageName, <<"a","r","c","h","i","v","e">>)
     \/ Includes(pageName, ArchiveGlyph)
     \/ Includes(pageName, <<"a","r","c","h","i","v","e","d">>)
     \/ Includes(pageName, <<"b","a","c","k","u","p">>)

\* the page filter of scanForIcons
isArchivePage(name) ==
  LET pageName == ToLowerCase(name)
  IN \/ Includes(pageName, <<"a","r","c","h","i","v","e">>)
     \/ Includes(pageName, ArchiveGlyph)
     \/ Includes(pageName, <<"a","r","c","h","i","v","e","d">>)
     \/ Includes(pageName, <<"o","l","d">>)
     \/ Includes(pageName, <<"b","a","c","k","u","p">>)

\* array.slice(0, n)
Slice(seq, n) == SubSeq(seq, 1, Min(n, Len(seq)))

\* pages.length > MAX_PAGES ? pages.slice(0, MAX_PAGES) : pages
PagesToProcess(pages) ==
  IF Len(pages) > MAX_PAGES THEN Slice(pages, MAX_PAGES) ELSE pages

\* pagesToProcess.filter(page => !isArchivePage)
PagesToScan(t, pages) ==
  SelectSeq(PagesToProcess(pages), LAMBDA p : ~isArchivePage(t[p].name))

\* the nodes below a list of siblings, in document order
RECURSIVE PreOrder(_, _)
PreOrder(t, ids) ==
  IF ids = <<>> THEN <<>>
  ELSE <<Head(ids)>> \o PreOrder(t, t[Head(ids)].children)
         \o PreOrder(t, Tail(ids))

\* page.findAll(node => node.type === ...)
FindAll(t, page, types) ==
  SelectSeq(PreOrder(t, t[page].children), LAMBDA n : t[n].type \in types)

\* the access test of the three phases: !testAccess || !testType skips a
\* node whose name is empty
Accessible(node) == node.name # <<>>

\* the IconInfo the three phases build; masterComponentId 0 stands for an
\* absent one
ScanInfo(t, id, pageName, status, master) ==
  [id |-> id, name |-> t[id].name, type |-> t[id].type,
   width |-> t[id].size[1], height |-> t[id].size[2], page |-> pageName,
   source |-> parseIconSource(t[id].name), status |-> status,
   masterComponentId |-> master, isIgnored |-> FALSE,
   hasInconsistency |-> FALSE]

\* size >= 8 && size <= 200 && aspectRatio >= 0.5 && aspectRatio <= 2.0
isIconSized(size) ==
  /\ Max(size[1], size[2]) >= 8
  /\ Max(size[1], size[2]) <= 200
  /\ 2 * size[1] >= size[2]
  /\ size[1] <= 2 * size[2]

\* the variants of a component set that phase 1 tracks as masters
VariantIds(t, set) ==
  {v \in Range(t[set].children) :
     t[v].type = "COMPONENT" /\ HasBounds(t[v]) /\ isIconSized(t[v].size)}

\* phase 1 on the components of one page, from the i-th on; it stops at
\* the break that follows a push
RECURSIVE ScanComponents(_, _, _, _, _)
ScanComponents(t, pageName, components, i, found) ==
  IF i > Len(components) THEN found
  ELSE LET c == components[i]
       IN IF \/ ~isLikelyIcon(t, c, FALSE).result
               \/ ~HasBounds(t[c])
               \/ ~Accessible(t[c])
            THEN ScanComponents(t, pageName, components, i + 1, found)
            ELSE LET pushed ==
                       [icons |-> Append(found.icons,
                                         ScanInfo(t, c, pageName, "master", 0)),
                        masters |-> found.masters \cup {c}
                                      \cup (IF t[c].type = "COMPONENT_SET"
                                              THEN VariantIds(t, c) ELSE {})]
                 IN IF Len(pushed.icons) >= MAX_ICONS
                      THEN pushed
                      ELSE ScanComponents(t, pageName, components, i + 1, pushed)

\* await instance.getMainComponentAsync(): the id of the main component, 0
\* for null
MainComponent(t, instance) ==
  IF t[instance].main \in DOMAIN t THEN t[instance].main ELSE 0

\* a variant that accepts an instance of any component
InstanceAccepted_AnyMain(main, masters) == main # 0

\* if (mainComponent && masterComponentIds.has(mainComponent.id))
InstanceAccepted(main, masters) == main # 0 /\ main \in masters

\* phase 2 on the instances of one page, from the i-th on
RECURSIVE ScanInstances(_, _, _, _, _, _)
ScanInstances(t, pageName, instances, i, masters, icons) ==
  IF i > Len(instances) THEN icons
  ELSE LET n == instances[i]
           main == MainComponent(t, n)
       IN IF /\ Accessible(t[n])
             /\ InstanceAccepted(main, masters)
             /\ HasBounds(t[n])
            THEN LET pushed == Append(icons,
                                 ScanInfo(t, n, pageName, "instance", main))
                 IN IF Len(pushed) >= MAX_ICONS
                      THEN pushed
                      ELSE ScanInstances(t, pageName, instances, i + 1,
                                         masters, pushed)
            ELSE ScanInstances(t, pageName, instances, i + 1, masters, icons)

\* a variant of the filter that looks for tracked masters only
RECURSIVE InsideMasterOrInstance_MastersOnly(_, _, _)
InsideMasterOrInstance_MastersOnly(t, parent, masters) ==
  IF parent \notin DOMAIN t \/ t[parent].type = "PAGE" THEN FALSE
  ELSE IF parent \in masters THEN TRUE
  ELSE InsideMasterOrInstance_MastersOnly(t, t[parent].parent, masters)

\* the while loop of the phase 3 filter: some ancestor below the page is a
\* tracked master or an instance
RECURSIVE InsideMasterOrInstance(_, _, _)
InsideMasterOrInstance(t, parent, masters) ==
  IF parent \notin DOMAIN t \/ t[parent].type = "PAGE" THEN FALSE
  ELSE IF parent \in masters \/ t[parent].type = "INSTANCE" THEN TRUE
  ELSE InsideMasterOrInstance(t, t[parent].parent, masters)

\* potentialUnresolvedIcons of a page
PotentialUnresolvedIcons(t, page, masters) ==
  LET potentialIcons ==
        FindAll(t, page, {"FRAME", "GROUP", "VECTOR", "BOOLEAN_OPERATION"})
      limitedPotentialIcons ==
        Slice(potentialIcons, MAX_UNRESOLVED_PER_PAGE * 3)
  IN SelectSeq(limitedPotentialIcons,
               LAMBDA n : ~InsideMasterOrInstance(t, t[n].parent, masters))

\* finalUnresolvedIcons of a page
FinalUnresolvedIcons(t, page, masters) ==
  Slice(PotentialUnresolvedIcons(t, page, masters), MAX_UNRESOLVED_PER_PAGE)

\* phase 3 on the final list of one page, from the i-th node on
RECURSIVE ScanUnresolvedNodes(_, _, _, _, _)
ScanUnresolvedNodes(t, pageName, nodes, i, icons) ==
  IF i > Len(nodes) THEN icons
  ELSE LET n == nodes[i]
       IN IF /\ Accessible(t[n])
             /\ isLikelyIcon(t, n, FALSE).result
             /\ HasBounds(t[n])
            THEN LET pushed == Append(icons,
                                 ScanInfo(t, n, pageName, "unresolved", 0))
                 IN IF Len(pushed) >= MAX_ICONS
                      THEN pushed
                      ELSE ScanUnresolvedNodes(t, pageName, nodes, i + 1, pushed)
            ELSE ScanUnresolvedNodes(t, pageName, nodes, i + 1, icons)

ScanProgress(num, den) == [type |-> "scan-progress", num |-> num, den |-> den]

\* the message posted between two phases and before the final processing
PhaseMessage(phase) ==
  CASE phase = 2 -> ScanProgress(50, 1)
    [] phase = 3 -> ScanProgress(75, 1)
    [] OTHER -> ScanProgress(95, 1)

\* where scanForIcons stands after a page of `phase`: in the same loop, or
\* past the loops that have no page to run, with the messages posted on
\* the way; phase 4 is the final processing
RECURSIVE AfterPage(_, _, _, _)
AfterPage(phase, nextIndex, left, pageCount) ==
  IF phase = 4 THEN [phase |-> 4, index |-> 0, posts |-> <<>>]
  ELSE IF ~left /\ nextIndex < pageCount
    THEN [phase |-> phase, index |-> nextIndex, posts |-> <<>>]
  ELSE LET rest == AfterPage(phase + 1, 0, FALSE, pageCount)
       IN [rest EXCEPT !.posts = <<PhaseMessage(phase + 1)>> \o @]


\* ------------------------------------------------------------------------
\* analyzeIconConsistency
\* ------------------------------------------------------------------------

\* s.replace(/[...]/g, by) for a character class given as a set
ReplaceEach(s, class, by) ==
  [i \in DOMAIN s |-> IF s[i] \in class THEN by ELSE s[i]]

\* the last index of the run of characters of the class that follows index e
RunEnd(s, e, class) ==
  CHOOSE r \in e..Len(s) :
    /\ \A k \in (e + 1)..r : s[k] \in class
    /\ r = Len(s) \/ s[r + 1] \notin class

\* s.replace(/\s*copy\s*\d*/i, '') on a lower-cased string: the first
\* "copy" goes with the blanks around it and the digits after them
StripCopy(s) ==
  LET hits == {i \in DOMAIN s : MatchAt(s, i, <<"c","o","p","y">>)}
  IN IF hits = {} THEN s
     ELSE LET q == CHOOSE h \in hits : \A g \in hits : h <= g
              p == CHOOSE b \in 1..q :
                     /\ \A k \in b..(q - 1) : s[k] = " "
                     /\ b = 1 \/ s[b - 1] # " "
              e == RunEnd(s, RunEnd(s, q + 3, {" "}), DigitSet)
          IN SubSeq(s, 1, p - 1) \o SubSeq(s, e + 1, Len(s))

\* the key of namePatterns
NamePattern(name) ==
  Trim(RemoveChars(ReplaceEach(ToLowerCase(name), {"-", "_"}, " "), DigitSet))

\* basePattern of the map callback, and otherPattern
PagePattern(name) ==
  Trim(StripCopy(RemoveChars(ReplaceEach(ToLowerCase(name), {"-", "_"}, " "),
                             DigitSet)))

\* 'Appears to be detached from component'
AppearsDetached(icons, icon) ==
  /\ icon.status = "unresolved" /\ icon.type = "FRAME"
  /\ \/ \E other \in Range(icons) :
          /\ other.status = "master"
          /\ Includes(ToLowerCase(other.name),
                      StripCopy(ToLowerCase(icon.name)))
     \/ Includes(ToLowerCase(icon.name), <<"c","o","p","y">>)

\* 'Duplicate on page'
DuplicateOnPage(icons, icon) ==
  \E pattern \in {PagePattern(icon.name)} :
    \E other \in Range(icons) :
      /\ other.page = icon.page
      /\ other.id # icon.id
      /\ PagePattern(other.name) = pattern

SizeOf(icon) == <<icon.width, icon.height>>

SizeGroup(icons, size) == {i \in DOMAIN icons : SizeOf(icons[i]) = size}

\* the first entry of sizeGroups sorted by falling length: of the largest
\* groups the one entered first
MostCommonSize(icons) ==
  LET i == CHOOSE i \in DOMAIN icons :
             /\ \A j \in DOMAIN icons :
                  Cardinality(SizeGroup(icons, SizeOf(icons[j])))
                    <= Cardinality(SizeGroup(icons, SizeOf(icons[i])))
             /\ \A j \in 1..(i - 1) :
                  Cardinality(SizeGroup(icons, SizeOf(icons[j])))
                    < Cardinality(SizeGroup(icons, SizeOf(icons[i])))
  IN SizeOf(icons[i])

\* 'Non-standard size'
NonStandardSize(icons, icon) ==
  \E common \in {MostCommonSize(icons)} :
    /\ Cardinality(SizeGroup(icons, common)) > 1
    /\ SizeOf(icon) # common
    /\ 2 * Cardinality(SizeGroup(icons, SizeOf(icon)))
         < Cardinality(SizeGroup(icons, common))

\* icon.name.match(/^[a-zA-Z][a-zA-Z0-9]*([_-][a-zA-Z0-9]+)*$/)
ConventionalName(name) ==
  /\ name # <<>>
  /\ name[1] \in LowerSet \cup UpperSet
  /\ \A i \in DOMAIN name :
       \/ name[i] \in LowerSet \cup UpperSet \cup DigitSet
       \/ /\ name[i] \in {"_", "-"}
          /\ i < Len(name)
          /\ name[i + 1] \in LowerSet \cup UpperSet \cup DigitSet

\* 'Potential duplicate across pages'
SimilarAcrossPages(icons, icon) ==
  /\ \E pattern \in {PagePattern(icon.name)} :
       Cardinality({i \in DOMAIN icons :
                      NamePattern(icons[i].name) = pattern}) > 1
  /\ ~DuplicateOnPage(icons, icon)

\* inconsistencies.length > 0
hasInconsistency(icons, icon) ==
  \/ ~ConventionalName(icon.name)
  \/ NonStandardSize(icons, icon)
  \/ AppearsDetached(icons, icon)
  \/ DuplicateOnPage(icons, icon)
  \/ SimilarAcrossPages(icons, icon)

analyzeIconConsistency(icons) ==
  [i \in DOMAIN icons |->
     [icons[i] EXCEPT !.hasInconsistency = hasInconsistency(icons, icons[i])]]

\* activeIcons.filter(icon => icon.hasInconsistency).length
InconsistencyCount(activeIcons) ==
  Len(SelectSeq(activeIcons, LAMBDA icon : icon.hasInconsistency))

\* a variant that counts the ignored icons as well
FinalResult_CountsAll(icons, ignored, currentPageName) ==
  LET analysed == Only({analyzeIconConsistency(icons)})
      activeIcons == SelectSeq(analysed, LAMBDA icon : icon.id \notin ignored)
      ignoredIconsData ==
        SelectSeq(analysed, LAMBDA icon : icon.id \in ignored)
  IN [totalIcons |-> Len(activeIcons),
      inconsistencies |-> InconsistencyCount(analysed),
      discoveredIcons |->
        activeIcons \o [i \in DOMAIN ignoredIconsData |->
                          [ignoredIconsData[i] EXCEPT !.isIgnored = TRUE]],
      ignoredCount |-> Len(ignoredIconsData),
      currentPageName |-> currentPageName]

\* the split into active and ignored icons and the ScanResult
FinalResult(icons, ignored, currentPageName) ==
  LET analysed == Only({analyzeIconConsistency(icons)})
      activeIcons == SelectSeq(analysed, LAMBDA icon : icon.id \notin ignored)
      ignoredIconsData ==
        SelectSeq(analysed, LAMBDA icon : icon.id \in ignored)
  IN [totalIcons |-> Len(activeIcons),
      inconsistencies |-> InconsistencyCount(activeIcons),
      discoveredIcons |->
        activeIcons \o [i \in DOMAIN ignoredIconsData |->
                          [ignoredIconsData[i] EXCEPT !.isIgnored = TRUE]],
      ignoredCount |-> Len(ignoredIconsData),
      currentPageName |-> currentPageName]

\* the result returned when loadAllPagesAsync fails
EmptyResult ==
  [totalIcons |-> 0, inconsistencies |-> 0, discoveredIcons |-> <<>>]

ScanComplete(result) == [type |-> "scan-complete", data |-> result]

\* { ...result, autoScan: true }
WithAutoScan(result) ==
  [f \in DOMAIN result \cup {"autoScan"} |->
     IF f = "autoScan" THEN TRUE ELSE result[f]]

\* the message either caller of scanForIcons posts for its result
CompletionOf(auto, result) ==
  ScanComplete(IF auto THEN WithAutoScan(result) ELSE result)

ScanError == [type |-> "scan-error"]

PhasePc(phase) ==
  CASE phase = 1 -> "masters"
    [] phase = 2 -> "instances"
    [] OTHER -> "unresolved"

\* scanForIcons goes on after a page of `phase` (or, with nextIndex 0, from
\* the start of phase 1); when no loop has a page left it finishes and the
\* handler posts the result
ScanProceedAs(auto, ignored, phase, nextIndex, left, pages, icons, posted) ==
  LET next == AfterPage(phase, nextIndex, left, Len(pages))
  IN /\ allIcons' = icons
     /\ pageIndex' = next.index
     /\ IF next.phase = 4
          THEN \E result \in
                   {FinalResult(icons, ignored, tree[currentPage].name)} :
                 /\ scanPc' = "done"
                 /\ scanResult' = result
                 /\ outbox' = outbox \o posted \o next.posts
                                \o <<CompletionOf(auto, result)>>
          ELSE /\ scanPc' = PhasePc(next.phase)
               /\ scanResult' = scanResult
               /\ outbox' = outbox \o posted \o next.posts

ScanProceed(phase, nextIndex, left, pages, icons, posted) ==
  ScanProceedAs(scanAuto, ignoredIcons, phase, nextIndex, left, pages, icons,
                posted)

\* the percentage posted for a page: base + (pageIndex / length) * span
PageProgress(base, span) ==
  ScanProgress(base * Len(pagesToScan) + span * pageIndex, Len(pagesToScan))

\* loadIgnoredIcons: the stored array replaces the set in memory; a read
\* that fails and an entry that is missing leave the set as it is
loadIgnoredIcons(fails) ==
  IF fails \/ ~storedIgnored.written THEN ignoredIcons ELSE storedIgnored.ids

\* saveIgnoredIcons: a write that fails leaves the stored entry as it is
saveIgnoredIcons(ignored, fails) ==
  IF fails THEN storedIgnored ELSE Entry(ignored)

\* scanForIcons up to its first loop, for either caller.  When
\* loadAllPagesAsync fails scanForIcons posts scan-error and returns the
\* empty result, which the caller posts as scan-complete.
ScanBegin(auto, ignored) ==
  \E loaded \in BOOLEAN :
    LET pages == tree[RootId].children
        first == (IF Len(pages) > MAX_PAGES
                    THEN <<ScanProgress(5, 1)>> ELSE <<>>)
                   \o <<ScanProgress(0, 1)>>
        toScan == PagesToScan(tree, pages)
    IN IF ~loaded
         THEN /\ scanPc' = "done"
              /\ scanResult' = EmptyResult
              /\ outbox' = outbox \o first
                             \o <<ScanError, CompletionOf(auto, EmptyResult)>>
              /\ UNCHANGED <<pageIndex, pagesToScan, allIcons,
                             masterComponentIds, visited>>
         ELSE /\ pagesToScan' = toScan
              /\ masterComponentIds' = {}
              /\ visited' = {}
              /\ ScanProceedAs(auto, ignored, 1, 0, FALSE, toScan, <<>>,
                               first \o <<ScanProgress(10, 1)>>)

\* figma.ui.onmessage, 'scan-icons': loadIgnoredIcons, then scanForIcons up
\* to its first loop
ScanStart ==
  /\ scanPc = "idle"
  /\ \E loadFails \in BOOLEAN :
       \E ignored \in {loadIgnoredIcons(loadFails)} :
         /\ ignoredIcons' = ignored
         /\ storageFailed' = (storageFailed \/ loadFails)
         /\ ScanBegin(FALSE, ignored)
  /\ scanAuto' = FALSE
  /\ UNCHANGED <<storedIgnored, pageChangeTimer, classCalls, handlerVars, rwiVars, simVars,
                 treeVars, reqVars, groupVars, runVars, txVars, pc, idx>>

PageChangedScanning(pageName) ==
  [type |-> "page-changed-scanning", newPageName |-> pageName]

CanvasSelectionChanged(nodeId) ==
  [type |-> "canvas-selection-changed", nodeId |-> nodeId]

IconIgnored(iconId, iconName) ==
  [type |-> "icon-ignored", iconId |-> iconId, iconName |-> iconName]

IconUnignored(iconId, iconName) ==
  [type |-> "icon-unignored", iconId |-> iconId, iconName |-> iconName]

\* the number of messages of the given types posted so far
Posted(types) ==
  Len(SelectSeq(outbox, LAMBDA m : m.type \in types))

\* how many page changes and how many ignore-icon and unignore-icon
\* messages a behaviour holds
MaxPageChanges == 1
MaxIgnoreRequests == 2

\* figma.on("selectionchange") when the user has moved to another page, on
\* which nothing is selected: the UI is told and the debounce timer is set
PageChanged ==
  /\ Posted({"page-changed-scanning"}) < MaxPageChanges
  /\ \E page \in Range(tree[RootId].children) \ {currentPage} :
       /\ currentPage' = page
       /\ outbox' = outbox \o <<PageChangedScanning(tree[page].name),
                                CanvasSelectionChanged(0)>>
  /\ pageChangeTimer' = TRUE
  /\ UNCHANGED <<storedIgnored, storageFailed, scanAuto, classCalls, handlerVars, rwiVars,
                 simVars, scanVars, tree, nextId, reqVars, groupVars, runVars, txVars,
                 pc, idx>>

\* the timer's callback: scanForIcons up to its first loop, with the ignored
\* set as it is in memory
AutoScanStart ==
  /\ pageChangeTimer
  /\ scanPc = "idle"
  /\ pageChangeTimer' = FALSE
  /\ scanAuto' = TRUE
  /\ ScanBegin(TRUE, ignoredIcons)
  /\ UNCHANGED <<ignoredIcons, storedIgnored, storageFailed, classCalls, handlerVars,
                 rwiVars, simVars,
                 treeVars, reqVars, groupVars, runVars, txVars, pc, idx>>

\* figma.ui.onmessage, 'ignore-icon', for the first or the third node of
\* the first page
IgnoreIcon ==
  /\ Posted({"icon-ignored", "icon-unignored"}) < MaxIgnoreRequests
  /\ \E iconId \in {ScanPageId(1) + 1, ScanPageId(1) + 3} :
       \E loadFails \in BOOLEAN, saveFails \in BOOLEAN :
         \E ignored \in {loadIgnoredIcons(loadFails) \cup {iconId}} :
           /\ iconId \in DOMAIN tree
           /\ ignoredIcons' = ignored
           /\ storedIgnored' = saveIgnoredIcons(ignored, saveFails)
           /\ storageFailed' = (storageFailed \/ loadFails \/ saveFails)
           /\ outbox' = Append(outbox, IconIgnored(iconId, tree[iconId].name))
  /\ UNCHANGED <<scanAuto, pageChangeTimer, classCalls, handlerVars, rwiVars, simVars,
                 scanPc, pageIndex, pagesToScan, allIcons, masterComponentIds,
                 scanResult, visited, treeVars, reqVars, groupVars, runVars,
                 txVars, pc, idx>>

\* figma.ui.onmessage, 'unignore-icon', for an id in the set in memory or
\* in the stored one
UnignoreIcon ==
  /\ Posted({"icon-ignored", "icon-unignored"}) < MaxIgnoreRequests
  /\ \E iconId \in ignoredIcons \cup storedIgnored.ids :
       \E loadFails \in BOOLEAN, saveFails \in BOOLEAN :
         \E ignored \in {loadIgnoredIcons(loadFails) \ {iconId}} :
           /\ iconId \in DOMAIN tree
           /\ ignoredIcons' = ignored
           /\ storedIgnored' = saveIgnoredIcons(ignored, saveFails)
           /\ storageFailed' = (storageFailed \/ loadFails \/ saveFails)
           /\ outbox' = Append(outbox,
                               IconUnignored(iconId, tree[iconId].name))
  /\ UNCHANGED <<scanAuto, pageChangeTimer, classCalls, handlerVars, rwiVars, simVars,
                 scanPc, pageIndex, pagesToScan, allIcons, masterComponentIds,
                 scanResult, visited, treeVars, reqVars, groupVars, runVars,
                 txVars, pc, idx>>

\* figma.ui.onmessage, 'consolidate-icons', with the icons of the last scan
\* as msg.icons
ConsolidateRequest ==
  /\ pc = "idle"
  /\ scanPc = "done"
  /\ reqIcons' = scanResult.discoveredIcons
  /\ reqScope' \in {"all-pages", "current-page"}
  /\ reqPageName' \in {<<>>, tree[currentPage].name}
  /\ pc' = "request"
  /\ idx' = 1
  /\ UNCHANGED <<simVars, scanVars, sideVars, treeVars, groupVars, runVars,
                 txVars, outbox>>

\* the ids the last scan reported with a status
ReportedAs(status) ==
  {scanResult.discoveredIcons[i].id :
     i \in {j \in DOMAIN scanResult.discoveredIcons :
              scanResult.discoveredIcons[j].status = status}}

RwiComplete == [type |-> "replace-with-instance-complete"]
RwiError == [type |-> "replace-with-instance-error"]

\* the consolidation is suspended inside an operation: it has created the
\* operation's master and has not yet replaced all of its members
ConsolidationInProgress(at) == at \in {"members", "singleReplace"}

\* figma.ui.onmessage, 'replace-with-instance', for an unresolved icon and
\* a master of the last scan: the handler runs up to its first await
RwiRequest ==
  /\ rwiPc = "idle"
  /\ scanPc = "done"
  /\ \E unresolved \in ReportedAs("unresolved") :
       \E master \in ReportedAs("master") :
         rwiReq' = [unresolved |-> unresolved, master |-> master,
                    node |-> Null]
  /\ rwiPc' = "unresolved"
  /\ UNCHANGED <<rwiDuring, storeVars, classCalls, handlerVars, simVars, conVars,
                 scanVars>>

\* replaceUnresolvedWithInstance after its first await: the unresolved
\* node has been looked up
RwiLookup ==
  /\ rwiPc = "unresolved"
  /\ IF GetNodeById(tree, rwiReq.unresolved) = Null
       THEN /\ rwiPc' = "done"
            /\ outbox' = Append(outbox, RwiError)
       ELSE /\ rwiPc' = "master"
            /\ outbox' = outbox
  /\ rwiReq' = [rwiReq EXCEPT !.node = GetNodeById(tree, rwiReq.unresolved)]
  /\ UNCHANGED <<rwiDuring, storeVars, classCalls, handlerVars, simVars, scanVars,
                 treeVars, reqVars, groupVars, runVars, txVars, pc, idx>>

\* the size is kept when it differs from the master's by more than 2
Resized(t, instance, unresolved, master) ==
  IF \/ Abs(unresolved.size[1] - master.size[1]) > 2
     \/ Abs(unresolved.size[2] - master.size[2]) > 2
    THEN [t EXCEPT ![instance].size = unresolved.size]
    ELSE [t EXCEPT ![instance].size = master.size]

\* the tree after the rest of replaceUnresolvedWithInstance, and whether it
\* threw.  unresolved is the node as it was looked up; when it has left
\* the document since, it has no parent and appendChild is called on null
RwiReplace(t, nid, cur, unresolvedId, unresolved, masterId) ==
  LET masterNode == GetNodeById(t, masterId)
      masterComponent ==
        IF masterNode # Null /\ masterNode.type = "COMPONENT_SET"
          THEN (IF Len(masterNode.children) > 0
                  THEN masterNode.children[1] ELSE 0)
          ELSE masterId
  IN IF \/ masterNode = Null
        \/ masterNode.type \notin {"COMPONENT", "COMPONENT_SET"}
        \/ masterComponent \notin DOMAIN t
        \/ t[masterComponent].type # "COMPONENT"
       THEN [tree |-> t, nextId |-> nid, threw |-> TRUE, changed |-> FALSE]
     ELSE LET created == CreateInstance(t, cur, masterComponent, nid)
              placed == [Resized(created, nid, unresolved, t[masterComponent])
                           EXCEPT ![nid].x = unresolved.x,
                                  ![nid].y = unresolved.y]
          IN IF unresolvedId \notin DOMAIN t
               THEN [tree |-> placed, nextId |-> nid + 1, threw |-> TRUE,
                     changed |-> TRUE]
             ELSE LET parent == t[unresolvedId].parent
                      index == IndexOf(t[parent].children, unresolvedId)
                      inserted ==
                        IF t[parent].type # "PAGE"
                          THEN InsertChild(placed, parent, index, nid)
                          ELSE AppendChild(placed, parent, nid)
                  IN [tree |-> RemoveNode(inserted, unresolvedId),
                      nextId |-> nid + 1, threw |-> FALSE, changed |-> TRUE]

\* replaceUnresolvedWithInstance after its second await, to its end
RwiMutate ==
  /\ rwiPc = "master"
  /\ \E replaced \in {RwiReplace(tree, nextId, currentPage, rwiReq.unresolved,
                                  rwiReq.node, rwiReq.master)} :
       /\ tree' = replaced.tree
       /\ nextId' = replaced.nextId
       /\ outbox' = Append(outbox, IF replaced.threw THEN RwiError
                                   ELSE RwiComplete)
       /\ rwiDuring' = IF replaced.changed THEN pc ELSE rwiDuring
       /\ tx' = IF replaced.changed /\ pc \in {"members", "singleReplace"}
                  THEN [tx EXCEPT !.faulted = TRUE]
                  ELSE tx
  /\ rwiPc' = "done"
  /\ UNCHANGED <<rwiReq, storeVars, classCalls, handlerVars, simVars, scanVars,
                 currentPage, reqVars, groupVars, runVars, lastTx, faults, pc,
                 idx>>

\* one page of phase 1
ScanMasters ==
  /\ scanPc = "masters"
  /\ LET page == pagesToScan[pageIndex + 1]
         allComponents == FindAll(tree, page, {"COMPONENT", "COMPONENT_SET"})
         found == ScanComponents(tree, tree[page].name, allComponents, 1,
                                 [icons |-> allIcons,
                                  masters |-> masterComponentIds])
     IN /\ masterComponentIds' = found.masters
        /\ visited' = visited \cup {<<1, page>>}
        /\ ScanProceed(1, pageIndex + 1, Len(found.icons) >= MAX_ICONS,
                       pagesToScan, found.icons, <<PageProgress(10, 40)>>)
  /\ UNCHANGED <<pagesToScan, ignoredIcons, simVars, sideVars, treeVars, reqVars,
                 groupVars, runVars, txVars, pc, idx>>

\* one page of phase 2
ScanPageInstances ==
  /\ scanPc = "instances"
  /\ LET page == pagesToScan[pageIndex + 1]
         allInstances == FindAll(tree, page, {"INSTANCE"})
         icons == ScanInstances(tree, tree[page].name, allInstances, 1,
                                masterComponentIds, allIcons)
     IN /\ visited' = visited \cup {<<2, page>>}
        /\ ScanProceed(2, pageIndex + 1, Len(icons) >= MAX_ICONS,
                       pagesToScan, icons, <<PageProgress(50, 25)>>)
  /\ UNCHANGED <<pagesToScan, masterComponentIds, ignoredIcons, simVars, sideVars,
                 treeVars, reqVars, groupVars, runVars, txVars, pc, idx>>

\* one page of phase 3; the loop is left before the page is searched when
\* allIcons has reached MAX_ICONS
ScanUnresolved ==
  /\ scanPc = "unresolved"
  /\ LET page == pagesToScan[pageIndex + 1]
         potentialUnresolvedIcons ==
           PotentialUnresolvedIcons(tree, page, masterComponentIds)
         limited == IF Len(potentialUnresolvedIcons) > MAX_UNRESOLVED_PER_PAGE
                      THEN <<PageProgress(75, 15)>> ELSE <<>>
         icons == ScanUnresolvedNodes(tree, tree[page].name,
                    FinalUnresolvedIcons(tree, page, masterComponentIds),
                    1, allIcons)
     IN IF Len(allIcons) >= MAX_ICONS
          THEN /\ visited' = visited
               /\ ScanProceed(3, pageIndex + 1, TRUE, pagesToScan, allIcons,
                              <<PageProgress(75, 15)>>)
          ELSE /\ visited' = visited \cup {<<3, page>>}
               /\ ScanProceed(3, pageIndex + 1, Len(icons) >= MAX_ICONS,
                              pagesToScan, icons,
                              <<PageProgress(75, 15)>> \o limited)
  /\ UNCHANGED <<pagesToScan, masterComponentIds, ignoredIcons, simVars, sideVars,
                 treeVars, reqVars, groupVars, runVars, txVars, pc, idx>>

\* ------------------------------------------------------------------------
\* Requests the grouping passes are run on
\* ------------------------------------------------------------------------
MaxIcons == 3

SolidFill == <<"SOLID">>

Candidate(name, size, page, status, type, fills, strokes) ==
  [name |-> name, size |-> size, page |-> page, status |-> status,
   type |-> type, fills |-> fills, strokes |-> strokes]

\* scan candidates: same-key pairs, singles that score 69, 70 and 74 against
\* a home-icon frame, a cross-page twin, an instance, an unrelated group
ClusterPool ==
  { Candidate(nHomeDashIcon, <<24, 24>>, Page1Name, "unresolved", "FRAME", SolidFill, <<>>),
    Candidate(nHomeIconCamel, <<24, 24>>, Page1Name, "unresolved", "FRAME", SolidFill, <<>>),
    Candidate(nStarIcon, <<24, 24>>, Page1Name, "unresolved", "VECTOR", <<>>, SolidFill),
    Candidate(nHomes, <<24, 25>>, Page1Name, "unresolved", "VECTOR", <<>>, SolidFill),
    Candidate(nHomes, <<24, 24>>, Page1Name, "unresolved", "VECTOR", <<>>, SolidFill),
    Candidate(nHomeDashIcon, <<24, 24>>, Page2Name, "unresolved", "FRAME", SolidFill, <<>>),
    Candidate(nHomeDashIcon, <<24, 24>>, Page1Name, "instance", "INSTANCE", SolidFill, <<>>),
    Candidate(nArrow, <<24, 24>>, Page1Name, "unresolved", "GROUP", <<>>, <<>>) }

PageNames == <<Page1Name, Page2Name>>
PageIds == <<101, 102>>
PageIdOf(name) == PageIds[CHOOSE i \in DOMAIN PageNames : PageNames[i] = name]

\* ids of the chosen candidates that lie on a page and still exist, in order
RECURSIVE ChildrenOn(_, _, _, _)
ChildrenOn(choice, gone, page, i) ==
  IF i > Len(choice) THEN <<>>
  ELSE (IF choice[i].page = page /\ i \notin gone THEN <<i>> ELSE <<>>)
         \o ChildrenOn(choice, gone, page, i + 1)

LibraryPageId == PageIds[Len(PageIds)] + 1

\* the document the candidates were scanned from; the nodes in gone have
\* been deleted since the scan; withLibrary: the icon library page exists
DocumentOf(choice, gone, withLibrary) ==
  LET extra == IF withLibrary THEN {LibraryPageId} ELSE {}
  IN [id \in ((DOMAIN choice) \ gone) \cup Range(PageIds) \cup extra
              \cup {RootId} |->
        IF id = RootId
          THEN [MkNode("DOCUMENT", FileName, 0, <<>>, <<>>)
                  EXCEPT !.children =
                    PageIds \o (IF withLibrary THEN <<LibraryPageId>> ELSE <<>>)]
        ELSE IF id = LibraryPageId
          THEN MkNode("PAGE", LibraryPageName, RootId, <<>>, <<>>)
        ELSE IF id \in Range(PageIds)
          THEN LET k == CHOOSE i \in DOMAIN PageIds : PageIds[i] = id
               IN [MkNode("PAGE", PageNames[k], RootId, <<>>, <<>>)
                     EXCEPT !.children = ChildrenOn(choice, gone, PageNames[k], 1)]
        ELSE [MkNode(choice[id].type, choice[id].name,
                     PageIdOf(choice[id].page), choice[id].fills,
                     choice[id].strokes)
                EXCEPT !.props = id, !.x = 10 * id, !.y = 5 * id,
                       !.size = choice[id].size] ]

RequestOf(choice) ==
  [i \in DOMAIN choice |->
     IconInfo(i, choice[i].name, choice[i].size, choice[i].page,
              choice[i].status)]

\* a file name and page names with the separator of the group key in them
nLibraryV2 == IconLibrarySource \o <<"_","v","2">>
nIcons == <<"I","c","o","n","s">>
nV2Icons == <<"v","2","_">> \o nIcons

NamingFileNames == {FileName, nLibraryV2}
NamingPageNames == {PageNames, <<nIcons, nV2Icons>>}

\* the same candidates in a file and on pages with other names
NamingPool ==
  { Candidate(nStar, <<24, 24>>, Page1Name, "unresolved", "FRAME", SolidFill, <<>>),
    Candidate(nStarIcon, <<24, 24>>, Page2Name, "unresolved", "FRAME", SolidFill, <<>>),
    Candidate(nStarIcon, <<24, 24>>, Page1Name, "unresolved", "FRAME", SolidFill, <<>>),
    Candidate(nHomeIconCamel, <<24, 24>>, Page1Name, "unresolved", "FRAME", SolidFill, <<>>) }

\* the name a page of the pool has in the document
NamedPage(page, pageNames) ==
  pageNames[CHOOSE k \in DOMAIN PageNames : PageNames[k] = page]

\* the document of the chosen candidates with the file and the pages named
NamedDocument(choice, fileName, pageNames) ==
  LET t == DocumentOf(choice, {}, FALSE)
  IN [id \in DOMAIN t |->
        IF id = RootId THEN [t[id] EXCEPT !.name = fileName]
        ELSE IF id \in Range(PageIds)
          THEN [t[id] EXCEPT !.name = NamedPage(PageNames[id - RootId], pageNames)]
        ELSE t[id]]

\* the candidates a scan of that document reports for the chosen nodes
NamedRequest(choice, fileName, pageNames) ==
  [i \in DOMAIN choice |->
     [IconInfo(i, choice[i].name, choice[i].size,
               NamedPage(choice[i].page, pageNames), choice[i].status)
        EXCEPT !.source = parseIconSourceIn(fileName, choice[i].name)]]

NamingInit ==
  /\ \E n \in 1..MaxIcons :
       \E choice \in [1..n -> NamingPool] :
         \E fileName \in NamingFileNames, pageNames \in NamingPageNames :
           /\ reqIcons = NamedRequest(choice, fileName, pageNames)
           /\ tree = NamedDocument(choice, fileName, pageNames)
  /\ currentPage = PageIds[1]
  /\ nextId = 201
  /\ reqScope = "all-pages"
  /\ reqPageName = <<>>
  /\ pc = "request" /\ idx = 1
  /\ iconsToProcess = <<>> /\ validIcons = <<>>
  /\ iconGroups = <<>> /\ enhancedGroups = <<>>
  /\ processedIcons = {}
  /\ outbox = <<>>
  /\ RunIdle

ClusterInit ==
  /\ \E n \in 1..MaxIcons :
       \E choice \in [1..n -> ClusterPool] :
         \E gone \in {{}} \cup {{i} : i \in 1..n} :
           /\ reqIcons = RequestOf(choice)
           /\ tree = DocumentOf(choice, gone, FALSE)
  /\ currentPage = PageIds[1]
  /\ nextId = 201
  /\ reqScope \in {"all-pages", "current-page"}
  /\ reqPageName \in {<<>>, Page1Name}
  /\ pc = "request" /\ idx = 1
  /\ iconsToProcess = <<>> /\ validIcons = <<>>
  /\ iconGroups = <<>> /\ enhancedGroups = <<>>
  /\ processedIcons = {}
  /\ outbox = <<>>
  /\ RunIdle

\* ------------------------------------------------------------------------
\* Requests whole consolidation runs are made on
\* ------------------------------------------------------------------------
MaxMembers == 3
MaxFaults == 2

\* two frames of one first-pass group, a group of its own, a twin of the
\* first frame on the other page
RunPool ==
  { Candidate(nHomeDashIcon, <<24, 24>>, Page1Name, "unresolved", "FRAME", SolidFill, <<>>),
    Candidate(nHomeIconCamel, <<24, 24>>, Page1Name, "unresolved", "FRAME", SolidFill, <<>>),
    Candidate(nArrow, <<24, 24>>, Page1Name, "unresolved", "GROUP", <<>>, <<>>),
    Candidate(nHomeDashIcon, <<24, 24>>, Page2Name, "unresolved", "FRAME", SolidFill, <<>>) }

RunInit ==
  /\ \E n \in 1..MaxMembers :
       \E choice \in [1..n -> RunPool] :
         \E withLibrary \in BOOLEAN :
           /\ reqIcons = RequestOf(choice)
           /\ tree = DocumentOf(choice, {}, withLibrary)
  /\ currentPage = PageIds[1]
  /\ nextId = 201
  /\ reqScope = "all-pages"
  /\ reqPageName = <<>>
  /\ pc = "request" /\ idx = 1
  /\ iconsToProcess = <<>> /\ validIcons = <<>>
  /\ iconGroups = <<>> /\ enhancedGroups = <<>>
  /\ processedIcons = {}
  /\ outbox = <<>>
  /\ libraryPage = 0
  /\ groupsToProcess = <<>> /\ singleIcons = <<>>
  /\ componentsCreated = 0 /\ iconsReplaced = 0 /\ failedOperations = 0
  /\ pagesAffected = {}
  /\ tx = NoTx /\ lastTx = NoLastTx
  /\ faults = MaxFaults

\* requests of scope current-page, with and without msg.currentPageName, on
\* documents whose tree interface does not fail
ScopeInit ==
  /\ \E n \in 1..MaxMembers :
       \E choice \in [1..n -> RunPool] :
         \E withLibrary \in BOOLEAN :
           /\ reqIcons = RequestOf(choice)
           /\ tree = DocumentOf(choice, {}, withLibrary)
  /\ currentPage \in Range(PageIds)
  /\ nextId = 201
  /\ reqScope = "current-page"
  /\ reqPageName \in {<<>>, tree[currentPage].name}
  /\ pc = "request" /\ idx = 1
  /\ iconsToProcess = <<>> /\ validIcons = <<>>
  /\ iconGroups = <<>> /\ enhancedGroups = <<>>
  /\ processedIcons = {}
  /\ outbox = <<>>
  /\ RunIdle
  /\ faults = 0

\* candidates of which some have been turned into components since the scan
\* that reported them as unresolved
ConvertedPool ==
  { Candidate(nHomeDashIcon, <<24, 24>>, Page1Name, "unresolved", "FRAME", SolidFill, <<>>),
    Candidate(nHomeIconCamel, <<24, 24>>, Page1Name, "unresolved", "COMPONENT", SolidFill, <<>>),
    Candidate(nHomeDashIcon, <<24, 24>>, Page1Name, "unresolved", "COMPONENT", SolidFill, <<>>),
    Candidate(nArrow, <<24, 24>>, Page2Name, "unresolved", "COMPONENT", <<>>, <<>>),
    Candidate(nArrow, <<24, 24>>, Page1Name, "unresolved", "GROUP", <<>>, <<>>) }

\* requests on documents whose tree interface does not fail
ConvertedInit ==
  /\ \E n \in 1..MaxMembers :
       \E choice \in [1..n -> ConvertedPool] :
         \E withLibrary \in BOOLEAN :
           /\ reqIcons = RequestOf(choice)
           /\ tree = DocumentOf(choice, {}, withLibrary)
  /\ currentPage = PageIds[1]
  /\ nextId = 201
  /\ reqScope = "all-pages"
  /\ reqPageName = <<>>
  /\ pc = "request" /\ idx = 1
  /\ iconsToProcess = <<>> /\ validIcons = <<>>
  /\ iconGroups = <<>> /\ enhancedGroups = <<>>
  /\ processedIcons = {}
  /\ outbox = <<>>
  /\ RunIdle

\* ------------------------------------------------------------------------
\* Documents the scans are run on
\* ------------------------------------------------------------------------
MaxScanPages == 3

\* a node of a page: parent is the position of its parent on the page (0:
\* the page), main refers to a node of the same page ("own") or of the
\* first page of the document ("first")
PageNode(type, name, parent, size, main) ==
  [type |-> type, name |-> name, parent |-> parent, size |-> size,
   main |-> main]

NoMain == <<"none", 0>>
nCard == <<"C","a","r","d">>

\* three components the classifier accepts and one it rejects for its name
LibraryPage ==
  << PageNode("COMPONENT", nHomeDashIcon, 0, <<24, 24>>, NoMain),
     PageNode("COMPONENT", nArrow, 0, <<24, 24>>, NoMain),
     PageNode("COMPONENT", nCard, 0, <<300, 200>>, NoMain),
     PageNode("COMPONENT", nStarIcon, 0, <<16, 16>>, NoMain) >>

\* instances of the first page's nodes, a detached one, a loose frame with
\* its vector
UsagePage ==
  << PageNode("INSTANCE", nHomeDashIcon, 0, <<24, 24>>, <<"first", 1>>),
     PageNode("INSTANCE", nCard, 0, <<300, 200>>, <<"first", 3>>),
     PageNode("FRAME", nStarIcon, 0, <<24, 24>>, NoMain),
     PageNode("VECTOR", nStarIcon, 3, <<20, 20>>, NoMain),
     PageNode("INSTANCE", nArrow, 0, <<24, 24>>, NoMain) >>

\* a component set with a variant the classifier rejects but that is
\* icon-sized, one it accepts and a large one it rejects, and an instance
\* of the first and of the last
SetPage ==
  << PageNode("COMPONENT_SET", nIcon, 0, <<64, 32>>, NoMain),
     PageNode("COMPONENT", nCard, 1, <<24, 24>>, NoMain),
     PageNode("COMPONENT", nHomeDashIcon, 1, <<24, 24>>, NoMain),
     PageNode("COMPONENT", nCard, 1, <<300, 300>>, NoMain),
     PageNode("INSTANCE", nIcon, 0, <<24, 24>>, <<"own", 2>>),
     PageNode("INSTANCE", nCard, 0, <<24, 24>>, <<"own", 4>>) >>

\* loose nodes: an icon group, a frame without a name, a shape that is no
\* icon, a vector without bounds, and an icon frame with its vector
LoosePage ==
  << PageNode("GROUP", nArrow, 0, <<24, 24>>, NoMain),
     PageNode("FRAME", <<>>, 0, <<24, 24>>, NoMain),
     PageNode("BOOLEAN_OPERATION", nLayer1, 0, <<24, 24>>, NoMain),
     PageNode("VECTOR", nStarIcon, 0, <<0, 0>>, NoMain),
     PageNode("FRAME", nHomeDashIcon, 0, <<24, 24>>, NoMain),
     PageNode("VECTOR", nLayer1, 5, <<20, 20>>, NoMain) >>

\* content of a master, of an instance and of a component that is no
\* master
InsidePage ==
  << PageNode("COMPONENT", nHomeDashIcon, 0, <<24, 24>>, NoMain),
     PageNode("FRAME", nHome, 1, <<24, 24>>, NoMain),
     PageNode("INSTANCE", nHomeDashIcon, 0, <<24, 24>>, <<"own", 1>>),
     PageNode("VECTOR", nHome, 3, <<20, 20>>, NoMain),
     PageNode("COMPONENT", nCard, 0, <<300, 200>>, NoMain),
     PageNode("FRAME", nArrow, 5, <<24, 24>>, NoMain),
     PageNode("VECTOR", nLayer1, 6, <<20, 20>>, NoMain) >>

\* more accepted components than MAX_ICONS, an instance of the last of
\* them, and a loose icon frame with its vector
DensePage ==
  << PageNode("COMPONENT", nHomeDashIcon, 0, <<24, 24>>, NoMain),
     PageNode("COMPONENT", nArrow, 0, <<24, 24>>, NoMain),
     PageNode("COMPONENT", nStarIcon, 0, <<16, 16>>, NoMain),
     PageNode("COMPONENT", nHomeDashIcon, 0, <<16, 16>>, NoMain),
     PageNode("COMPONENT", nArrow, 0, <<16, 16>>, NoMain),
     PageNode("COMPONENT", nStarIcon, 0, <<24, 24>>, NoMain),
     PageNode("INSTANCE", nStarIcon, 0, <<24, 24>>, <<"own", 6>>),
     PageNode("FRAME", nHomeDashIcon, 0, <<24, 24>>, NoMain),
     PageNode("VECTOR", nLayer1, 8, <<20, 20>>, NoMain) >>

\* an icon component with an instance that carries its own layer name and
\* one that kept the component's name
RenamedPage ==
  << PageNode("COMPONENT", nStarIcon, 0, <<16, 16>>, NoMain),
     PageNode("INSTANCE", nCard, 0, <<16, 16>>, <<"own", 1>>),
     PageNode("INSTANCE", nStarIcon, 0, <<16, 16>>, <<"own", 1>>) >>

\* an icon frame that holds a background shape and an inner icon frame
\* with the vector
NestedPage ==
  << PageNode("FRAME", nHomeDashIcon, 0, <<24, 24>>, NoMain),
     PageNode("RECTANGLE", nLayer1, 1, <<24, 24>>, NoMain),
     PageNode("FRAME", nArrow, 1, <<16, 16>>, NoMain),
     PageNode("VECTOR", nLayer1, 3, <<12, 12>>, NoMain) >>

nArchived == <<"A","r","c","h","i","v","e","d">>
nOldSet == <<"O","L","D"," ","s","e","t">>
nGlyphKeep == ArchiveGlyph \o <<" ","K","e","e","p">>
nBackups == <<"M","y"," ","b","a","c","k","u","p","s">>

ScanPage(name, nodes) == [name |-> name, nodes |-> nodes]

ScanPagePool ==
  { ScanPage(Page1Name, LibraryPage), ScanPage(Page2Name, UsagePage),
    ScanPage(Page2Name, SetPage), ScanPage(Page1Name, LoosePage),
    ScanPage(Page2Name, InsidePage), ScanPage(nArchived, InsidePage),
    ScanPage(nOldSet, LoosePage), ScanPage(nGlyphKeep, LibraryPage),
    ScanPage(nBackups, SetPage),
    ScanPage(Page1Name, DensePage),
    ScanPage(Page2Name, RenamedPage),
    ScanPage(Page1Name, NestedPage) }

\* the positions on a page of the children of parent, in order
ChildrenAt(nodes, parent) ==
  SelectSeq([j \in 1..Len(nodes) |-> j], LAMBDA j : nodes[j].parent = parent)

ScanChildren(nodes, k, parent) ==
  LET at == ChildrenAt(nodes, parent)
  IN [i \in DOMAIN at |-> ScanPageId(k) + at[i]]

MainOf(main, k) ==
  CASE main[1] = "own" -> ScanPageId(k) + main[2]
    [] main[1] = "first" -> ScanPageId(1) + main[2]
    [] OTHER -> 0

ScanDocument(pages) ==
  LET pageIds == {ScanPageId(k) : k \in DOMAIN pages}
      nodeIds == UNION {{ScanPageId(k) + j : j \in DOMAIN pages[k].nodes} :
                          k \in DOMAIN pages}
  IN [id \in {RootId} \cup pageIds \cup nodeIds |->
        IF id = RootId
          THEN [MkNode("DOCUMENT", FileName, 0, <<>>, <<>>)
                  EXCEPT !.children = [k \in DOMAIN pages |-> ScanPageId(k)]]
        ELSE LET k == id \div 1000
                 j == id % 1000
             IN IF j = 0
                  THEN [MkNode("PAGE", pages[k].name, RootId, <<>>, <<>>)
                          EXCEPT !.children = ScanChildren(pages[k].nodes, k, 0)]
                  ELSE LET n == pages[k].nodes[j]
                       IN [MkNode(n.type, n.name,
                                  IF n.parent = 0 THEN ScanPageId(k)
                                  ELSE ScanPageId(k) + n.parent, <<>>, <<>>)
                             EXCEPT !.children = ScanChildren(pages[k].nodes, k, j),
                                    !.main = MainOf(n.main, k),
                                    !.size = n.size] ]

ScanInit ==
  /\ \E n \in 1..MaxScanPages :
       \E pages \in [1..n -> ScanPagePool] : tree = ScanDocument(pages)
  /\ currentPage = ScanPageId(1)
  /\ nextId = 0
  /\ RequestIdle
  /\ scanPc = "idle" /\ pageIndex = 0 /\ pagesToScan = <<>>
  /\ allIcons = <<>> /\ masterComponentIds = {}
  /\ ignoredIcons = {}
  /\ scanResult = Null /\ visited = {}
  /\ storedIgnored \in {NoEntry,
                        Entry({ScanPageId(1) + 1, ScanPageId(2) + 3})}
  /\ SideQuiet

\* ------------------------------------------------------------------------
\* Documents that are scanned and then consolidated
\* ------------------------------------------------------------------------
\* a master, a frame that holds a shape and an instance of the master, and
\* a group that holds a shape
WorkPage(groupName) ==
  << PageNode("COMPONENT", nStarIcon, 0, <<16, 16>>, NoMain),
     PageNode("FRAME", nArrow, 0, <<24, 24>>, NoMain),
     PageNode("RECTANGLE", nLayer1, 2, <<20, 20>>, NoMain),
     PageNode("INSTANCE", nStarIcon, 2, <<12, 12>>, <<"own", 1>>),
     PageNode("GROUP", groupName, 0, <<24, 24>>, NoMain),
     PageNode("RECTANGLE", nLayer1, 5, <<20, 20>>, NoMain) >>

\* the group is the frame's twin, an icon of its own, or no icon
SessionDocuments ==
  { ScanDocument(<<ScanPage(Page1Name, WorkPage(name))>>) :
      name \in {nArrow, nHomeDashIcon, nLayer1} }

\* the plugin has just been started on the document
SessionInit ==
  /\ tree \in SessionDocuments
  /\ currentPage = ScanPageId(1)
  /\ nextId = 201
  /\ RequestIdle
  /\ ScanIdle
  /\ storedIgnored \in {NoEntry, Entry({ScanPageId(1) + 2}),
                        Entry({ScanPageId(1) + 5})}
  /\ SideQuiet

\* the plugin has just been started on a document of two pages: the set in
\* memory is empty, the stored entry is left from earlier runs
IgnoreInit ==
  /\ tree \in {ScanDocument(<<ScanPage(Page1Name, LibraryPage),
                               ScanPage(Page2Name, UsagePage)>>),
                ScanDocument(<<ScanPage(Page1Name, UsagePage),
                               ScanPage(Page2Name, InsidePage)>>)}
  /\ currentPage = ScanPageId(1)
  /\ nextId = 0
  /\ RequestIdle
  /\ ScanIdle
  /\ storedIgnored \in {NoEntry, Entry({}),
                        Entry({ScanPageId(1) + 1, ScanPageId(2) + 3})}
  /\ SideQuiet

\* ------------------------------------------------------------------------
\* Nodes isLikelyIcon is called on
\* ------------------------------------------------------------------------

SubjectTypes ==
  {"COMPONENT", "COMPONENT_SET", "INSTANCE", "FRAME", "VECTOR", "GROUP",
   "BOOLEAN_OPERATION", "TEXT"}

SubjectNames == {nIconArrow, nSubmitButton, nHomeIconTab, nLayer1}

\* <<0, 0>>: no bounding box; 12x16 and 16x12 lie on either side of the
\* FRAME branch's aspect limits with both sides within 2 of 14; 52 is within
\* 2 of no standard size
SubjectSizes ==
  {<<24, 24>>, <<24, 40>>, <<26, 22>>, <<40, 40>>, <<52, 52>>, <<12, 16>>,
   <<16, 12>>, <<400, 400>>, <<1000, 1000>>, <<100, 4>>, <<0, 0>>}

\* the types of the subject's children
SubjectChildren ==
  { <<>>, <<"VECTOR">>, <<"TEXT">>,
    <<"TEXT", "RECTANGLE", "TEXT", "TEXT", "TEXT">>,
    <<"VECTOR", "VECTOR", "VECTOR", "VECTOR", "VECTOR", "VECTOR">> }

\* the frame the subject lies in, <<0, 0>> when it lies on the page
SubjectWrappers == {<<0, 0>>, <<100, 100>>, <<1000, 1000>>}

\* the wrapper is the first node of the page, the subject the second
WrapperId == ScanPageId(1) + 1
SubjectId == ScanPageId(1) + 2

\* a one-page document with the subject, its children and its wrapper
SubjectDocument(type, name, size, kids, wrapper) ==
  LET page == ScanPageId(1)
      wrapped == wrapper # <<0, 0>>
      kidIds == [i \in DOMAIN kids |-> SubjectId + i]
  IN [id \in {RootId, page, SubjectId} \cup Range(kidIds)
              \cup (IF wrapped THEN {WrapperId} ELSE {}) |->
        IF id = RootId
          THEN [MkNode("DOCUMENT", FileName, 0, <<>>, <<>>)
                  EXCEPT !.children = <<page>>]
        ELSE IF id = page
          THEN [MkNode("PAGE", Page1Name, RootId, <<>>, <<>>)
                  EXCEPT !.children = IF wrapped THEN <<WrapperId>>
                                      ELSE <<SubjectId>>]
        ELSE IF id = WrapperId
          THEN [MkNode("FRAME", nOuter, page, <<>>, <<>>)
                  EXCEPT !.children = <<SubjectId>>, !.size = wrapper]
        ELSE IF id = SubjectId
          THEN [MkNode(type, name, IF wrapped THEN WrapperId ELSE page,
                       <<>>, <<>>)
                  EXCEPT !.children = kidIds, !.size = size]
        ELSE [MkNode(kids[id - SubjectId], nLayer1, SubjectId, <<>>, <<>>)
                EXCEPT !.size = <<8, 8>>] ]

ClassifyInit ==
  /\ \E type \in SubjectTypes, name \in SubjectNames, size \in SubjectSizes,
        kids \in SubjectChildren, wrapper \in SubjectWrappers :
       tree = SubjectDocument(type, name, size, kids, wrapper)
  /\ currentPage = ScanPageId(1)
  /\ nextId = 0
  /\ RequestIdle
  /\ ScanIdle
  /\ SideIdle

\* ------------------------------------------------------------------------
\* consolidateLibraryDuplicates
\* ------------------------------------------------------------------------
wCopy == <<"c","o","p","y">>

\* .replace(/\s*copy\s*\d*/i, ''): the leftmost copy leaves the string; the
\* separators and digits next to it have left with the replacements before
RemoveFirstCopy(s) ==
  LET hits == {i \in DOMAIN s : MatchAt(s, i, wCopy)}
  IN IF hits = {} THEN s
     ELSE LET i == CHOOSE h \in hits : \A g \in hits : h <= g
          IN SubSeq(s, 1, i - 1) \o SubSeq(s, i + Len(wCopy), Len(s))

\* toLowerCase() and the three replacements; trim() finds no blank left
LibraryNormalized(s) == RemoveFirstCopy(StripSeparatorsAndDigits(s))

basePattern(icon) ==
  IF libraryPattern(icon.name) > 0
    THEN ToLowerCase(LibraryPart(icon.name)) \o <<"/">>
           \o LibraryNormalized(IconPart(icon.name))
    ELSE LibraryNormalized(icon.name)

\* Math.round(v / 4) * 4 for a non-negative integer v
RoundTo4(v) == ((v + 2) \div 4) * 4

sizeKey(icon) ==
  NumberToString(RoundTo4(icon.width)) \o <<"x">>
    \o NumberToString(RoundTo4(icon.height))

duplicateKey(icon) == basePattern(icon) \o <<"_">> \o sizeKey(icon)

\* the forEach that fills duplicateGroups
RECURSIVE DuplicateGroups(_, _, _)
DuplicateGroups(icons, i, groups) ==
  IF i > Len(icons) THEN groups
  ELSE LET key == duplicateKey(icons[i])
           group == IF MapHas(groups, key) THEN MapGet(groups, key) ELSE <<>>
       IN DuplicateGroups(icons, i + 1,
                          MapSet(groups, key, Append(group, icons[i])))

\* the three filters of the priority hierarchy
GroupComponents(group) ==
  SelectSeq(group, LAMBDA icon : icon.status = "master" \/ icon.type = "COMPONENT")
GroupInstances(group) ==
  SelectSeq(group, LAMBDA icon : icon.status = "instance" \/ icon.type = "INSTANCE")
GroupFrames(group) ==
  SelectSeq(group, LAMBDA icon : \/ icon.status = "unresolved"
                                 \/ icon.type \in {"FRAME", "GROUP", "VECTOR"})

\* name.length + (name.toLowerCase().includes('copy') ? 100 : 0)
CanonicalScore(icon) ==
  Len(icon.name) + (IF Includes(ToLowerCase(icon.name), wCopy) THEN 100 ELSE 0)

\* components.reduce(...): the first component of the lowest score
RECURSIVE CanonicalFrom(_, _, _)
CanonicalFrom(components, i, best) ==
  IF i > Len(components) THEN best
  ELSE CanonicalFrom(components, i + 1,
                     IF CanonicalScore(components[i]) < CanonicalScore(best)
                       THEN components[i] ELSE best)

\* the state the loops of one group work on
LibState(t, nid, removed, errors, gone) ==
  [tree |-> t, nextId |-> nid, removed |-> removed, errors |-> errors,
   gone |-> gone]

\* the nodes a remove() of node id takes out of the document
Leaving(t, id) == {[id |-> n, type |-> t[n].type] : n \in Subtree(t, id)}

\* node.remove() and duplicatesRemoved++
LibRemove(st, id) ==
  LibState(RemoveNode(st.tree, id), st.nextId, st.removed + 1, st.errors,
           st.gone \cup Leaving(st.tree, id))

\* a new instance of master takes the place of the instance old, which is
\* removed
LibSwap(st, cur, old, master) ==
  LET t == st.tree
      parent == t[old].parent
      index == IndexOf(t[parent].children, old)
      created == CreateInstance(t, cur, master, st.nextId)
      instance == [created EXCEPT ![st.nextId].x = t[old].x,
                                  ![st.nextId].y = t[old].y,
                                  ![st.nextId].props = t[old].props]
      inserted == InsertChild(instance, parent, index, st.nextId)
  IN LibState(RemoveNode(inserted, old), st.nextId + 1, st.removed + 1,
              st.errors, st.gone \cup Leaving(t, old))

LibError(st) == [st EXCEPT !.errors = @ + 1]

\* the loop over the instances of a group that has components
RECURSIVE DuplicateInstances(_, _, _, _, _, _)
DuplicateInstances(st, cur, instances, i, canonical, components) ==
  IF i > Len(instances) THEN st
  ELSE LET instanceNode == GetNodeById(st.tree, instances[i].id)
           masterComponent ==
             IF instanceNode.main \in DOMAIN st.tree THEN instanceNode.main
             ELSE 0
           isDuplicateMaster ==
             \E k \in DOMAIN components :
               components[k].id = masterComponent
                 /\ components[k].id # canonical
           next ==
             IF instanceNode = Null \/ instanceNode.type # "INSTANCE"
               THEN LibError(st)
             ELSE IF masterComponent = 0 \/ masterComponent = canonical
               THEN st
             ELSE IF ~isDuplicateMaster THEN st
             ELSE LibSwap(st, cur, instances[i].id, canonical)
       IN DuplicateInstances(next, cur, instances, i + 1, canonical,
                             components)

\* the loops that delete frames: strict tells whether a frame that does
\* not resolve is pushed to errors
RECURSIVE DuplicateFrames(_, _, _, _)
DuplicateFrames(st, frames, i, strict) ==
  IF i > Len(frames) THEN st
  ELSE LET frameNode == GetNodeById(st.tree, frames[i].id)
           next ==
             IF frameNode = Null \/ frameNode.type = "PAGE"
               THEN IF strict THEN LibError(st) ELSE st
               ELSE LibRemove(st, frames[i].id)
       IN DuplicateFrames(next, frames, i + 1, strict)

\* the loop over removeInstances of a group without components
RECURSIVE OtherInstances(_, _, _, _, _)
OtherInstances(st, cur, removeInstances, i, masterComponent) ==
  IF i > Len(removeInstances) THEN st
  ELSE LET removeNode == GetNodeById(st.tree, removeInstances[i].id)
           next ==
             IF removeNode = Null \/ removeNode.type # "INSTANCE" THEN st
             ELSE LibSwap(st, cur, removeInstances[i].id, masterComponent)
       IN OtherInstances(next, cur, removeInstances, i + 1, masterComponent)

\* a variant that treats every member of the group as a frame to delete
ProcessDuplicateGroup_AllAsFrames(st, cur, group) ==
  DuplicateFrames(st, group, 1, FALSE)

\* the body of the loop over groupsToProcess
ProcessDuplicateGroup(st, cur, group) ==
  LET components == GroupComponents(group)
      instances == GroupInstances(group)
      frames == GroupFrames(group)
  IN IF Len(components) > 0
       THEN LET canonicalComponent ==
                  CanonicalFrom(components, 2, components[1])
                canonicalNode == GetNodeById(st.tree, canonicalComponent.id)
            IN IF canonicalNode = Null
                    \/ canonicalNode.type \notin {"COMPONENT", "COMPONENT_SET"}
                 THEN LibError(st)
                 ELSE DuplicateFrames(
                        DuplicateInstances(st, cur, instances, 1,
                                           canonicalComponent.id, components),
                        frames, 1, TRUE)
     ELSE IF Len(instances) > 0
       THEN LET keepInstanceNode == GetNodeById(st.tree, instances[1].id)
            IN IF keepInstanceNode = Null
                    \/ keepInstanceNode.type # "INSTANCE"
                 THEN LibError(st)
               ELSE IF keepInstanceNode.main \notin DOMAIN st.tree
                 THEN LibError(st)
               ELSE DuplicateFrames(
                      OtherInstances(st, cur, Tail(instances), 1,
                                     keepInstanceNode.main),
                      frames, 1, FALSE)
     ELSE IF Len(frames) > 1
       THEN DuplicateFrames(st, Tail(frames), 1, FALSE)
     ELSE st

LibraryProgress(num, den) ==
  [type |-> "library-consolidation-progress", num |-> num, den |-> den]

LibraryComplete(removed, errors) ==
  [type |-> "library-consolidation-complete", duplicatesRemoved |-> removed,
   errors |-> errors]

\* the handler up to the loop over groupsToProcess: msg.icons is the list
\* the last scan returned, msg.currentPageName the name of a page
LibraryRequest ==
  /\ libPc = "idle"
  /\ pc = "idle"
  /\ scanPc = "done"
  /\ "discoveredIcons" \in DOMAIN scanResult
  /\ \E page \in Range(tree[RootId].children) :
       LET libraryIcons ==
             SelectSeq(scanResult.discoveredIcons,
                       LAMBDA icon : icon.page = tree[page].name)
           groups == DuplicateGroups(libraryIcons, 1, <<>>)
       IN /\ reqIcons' = scanResult.discoveredIcons
          /\ reqPageName' = tree[page].name
          /\ IF Len(libraryIcons) = 0
               THEN /\ libGroups' = <<>>
                    /\ libPc' = "done"
                    /\ outbox' = outbox \o <<LibraryProgress(0, 1),
                                             LibraryComplete(0, 0)>>
               ELSE /\ libGroups' =
                         SelectSeq(groups, LAMBDA e : Len(e.group) > 1)
                    /\ libPc' = "groups"
                    /\ outbox' = Append(outbox, LibraryProgress(0, 1))
  /\ UNCHANGED <<duplicatesRemoved, libErrors, libGone, sessionVars,
                 debounceVars, ignoreCalls, simVars,
                 scanVars, storeVars, classCalls, rwiVars, treeVars, reqScope,
                 groupVars, runVars, txVars, pc, idx>>

\* one group of groupsToProcess
LibraryGroup ==
  /\ libPc = "groups"
  /\ libGroups # <<>>
  /\ \E st \in {ProcessDuplicateGroup(
                  LibState(tree, nextId, duplicatesRemoved, libErrors,
                           libGone),
                  currentPage, Head(libGroups).group)} :
       /\ tree' = st.tree
       /\ nextId' = st.nextId
       /\ duplicatesRemoved' = st.removed
       /\ libErrors' = st.errors
       /\ libGone' = st.gone
  /\ libGroups' = Tail(libGroups)
  /\ outbox' = Append(outbox, LibraryProgress(1, 1))
  /\ UNCHANGED <<libPc, sessionVars, debounceVars, ignoreCalls, simVars,
                 scanVars, storeVars, classCalls,
                 rwiVars, currentPage, reqVars, groupVars, runVars, txVars, pc, idx>>

\* the message after the loop
LibraryFinish ==
  /\ libPc = "groups"
  /\ libGroups = <<>>
  /\ libPc' = "done"
  /\ outbox' = Append(outbox, LibraryComplete(duplicatesRemoved, libErrors))
  /\ UNCHANGED <<libGroups, duplicatesRemoved, libErrors, libGone,
                 sessionVars, debounceVars, ignoreCalls, simVars, scanVars,
                 storeVars, classCalls, rwiVars, treeVars, reqVars,
                 groupVars, runVars, txVars, pc, idx>>

\* ------------------------------------------------------------------------
\* Icon library pages that are scanned and then cleared of duplicates
\* ------------------------------------------------------------------------
nHomeIconCopy == nHomeDashIcon \o <<" ">> \o wCopy

\* a master, its copy, an instance of the copy, and a frame of the same
\* name and size with its shape
PairPage ==
  << PageNode("COMPONENT", nHomeDashIcon, 0, <<24, 24>>, NoMain),
     PageNode("COMPONENT", nHomeIconCopy, 0, <<24, 24>>, NoMain),
     PageNode("INSTANCE", nHomeDashIcon, 0, <<24, 24>>, <<"own", 2>>),
     PageNode("FRAME", nHomeDashIcon, 0, <<24, 24>>, NoMain),
     PageNode("RECTANGLE", nLayer1, 4, <<20, 20>>, NoMain) >>

\* a master, an instance of it, and a frame of the same name and size
KeepPage ==
  << PageNode("COMPONENT", nHomeDashIcon, 0, <<24, 24>>, NoMain),
     PageNode("INSTANCE", nHomeDashIcon, 0, <<24, 24>>, <<"own", 1>>),
     PageNode("FRAME", nHomeDashIcon, 0, <<24, 24>>, NoMain),
     PageNode("RECTANGLE", nLayer1, 3, <<20, 20>>, NoMain) >>

\* a master, and a frame of the same name and size that holds a shape and
\* another master
HolderPage ==
  << PageNode("COMPONENT", nHomeDashIcon, 0, <<24, 24>>, NoMain),
     PageNode("FRAME", nHomeDashIcon, 0, <<24, 24>>, NoMain),
     PageNode("RECTANGLE", nLayer1, 2, <<24, 24>>, NoMain),
     PageNode("COMPONENT", nStarIcon, 2, <<16, 16>>, NoMain) >>

\* two frames of the same name and size
FramesPage ==
  << PageNode("FRAME", nHomeDashIcon, 0, <<24, 24>>, NoMain),
     PageNode("RECTANGLE", nLayer1, 1, <<20, 20>>, NoMain),
     PageNode("FRAME", nHomeDashIcon, 0, <<24, 24>>, NoMain),
     PageNode("RECTANGLE", nLayer1, 3, <<20, 20>>, NoMain) >>

\* a master, two instances of it that were renamed and resized, and a
\* frame of the instances' name and size
InstancesPage ==
  << PageNode("COMPONENT", nStarIcon, 0, <<16, 16>>, NoMain),
     PageNode("INSTANCE", nHomeDashIcon, 0, <<24, 24>>, <<"own", 1>>),
     PageNode("INSTANCE", nHomeDashIcon, 0, <<24, 24>>, <<"own", 1>>),
     PageNode("FRAME", nHomeDashIcon, 0, <<24, 24>>, NoMain),
     PageNode("RECTANGLE", nLayer1, 4, <<20, 20>>, NoMain) >>

LibraryPagePool == {PairPage, KeepPage, HolderPage, FramesPage, InstancesPage}

LibraryDocuments ==
  { ScanDocument([k \in 1..n |-> ScanPage(PageNames[k], pages[k])]) :
      n \in {1, 2}, pages \in [1..2 -> LibraryPagePool] }

\* the plugin has just been started on a document with library pages
LibraryInit ==
  /\ tree \in LibraryDocuments
  /\ currentPage = ScanPageId(1)
  /\ nextId = 201
  /\ RequestIdle
  /\ ScanIdle
  /\ storedIgnored = NoEntry
  /\ SideQuiet

\* ------------------------------------------------------------------------
\* A session of two scans and two consolidation runs
\* ------------------------------------------------------------------------
\* the components on the icon library page
MastersOnLibraryPage(t) ==
  {n \in DOMAIN t : /\ t[n].type = "COMPONENT"
                    /\ FindLibraryPage(t) # 0
                    /\ t[n].parent = FindLibraryPage(t)}

\* figma.ui.onmessage, 'scan-icons', received after the first
\* consolidation run has ended
ScanAgain ==
  /\ scanPc = "done"
  /\ pc = "done"
  /\ firstRun = Null
  /\ firstRun' = [scope |-> reqScope,
                  scanned |-> "ignoredCount" \in DOMAIN scanResult,
                  candidates |-> {validIcons[i].id : i \in DOMAIN validIcons},
                  componentsCreated |-> componentsCreated,
                  masters |-> MastersOnLibraryPage(tree)]
  /\ \E loadFails \in BOOLEAN :
       \E ignored \in {loadIgnoredIcons(loadFails)} :
         /\ ignoredIcons' = ignored
         /\ storageFailed' = (storageFailed \/ loadFails)
         /\ ScanBegin(FALSE, ignored)
  /\ scanAuto' = FALSE
  /\ UNCHANGED <<secondRun, libVars, debounceVars, ignoreCalls, storedIgnored,
                 pageChangeTimer,
                 classCalls, rwiVars, simVars, treeVars, reqVars, groupVars,
                 runVars, txVars, pc, idx>>

\* figma.ui.onmessage, 'consolidate-icons', received with the result of
\* the second scan: the handler starts with fresh locals
ConsolidateAgain ==
  /\ pc = "done"
  /\ scanPc = "done"
  /\ firstRun # Null
  /\ ~secondRun
  /\ secondRun' = TRUE
  /\ reqIcons' = scanResult.discoveredIcons
  /\ reqScope' = "all-pages"
  /\ reqPageName' = <<>>
  /\ pc' = "request"
  /\ idx' = 1
  /\ iconsToProcess' = <<>> /\ validIcons' = <<>>
  /\ iconGroups' = <<>> /\ enhancedGroups' = <<>>
  /\ processedIcons' = {}
  /\ libraryPage' = 0
  /\ groupsToProcess' = <<>> /\ singleIcons' = <<>>
  /\ componentsCreated' = 0 /\ iconsReplaced' = 0 /\ failedOperations' = 0
  /\ pagesAffected' = {}
  /\ tx' = NoTx /\ lastTx' = NoLastTx
  /\ UNCHANGED <<firstRun, libVars, debounceVars, ignoreCalls, faults, outbox,
                 treeVars, simVars, scanVars,
                 storeVars, classCalls, rwiVars>>

\* an icon frame whose name holds a word of the component branch's list of
\* interface words
CardPage ==
  << PageNode("FRAME", nCard, 0, <<24, 24>>, NoMain),
     PageNode("RECTANGLE", nLayer1, 1, <<20, 20>>, NoMain) >>

RescanDocuments ==
  SessionDocuments \cup {ScanDocument(<<ScanPage(Page1Name, CardPage)>>)}

\* the plugin has just been started on the document
RescanInit ==
  /\ tree \in RescanDocuments
  /\ currentPage = ScanPageId(1)
  /\ nextId = 201
  /\ RequestIdle
  /\ ScanIdle
  /\ storedIgnored = NoEntry
  /\ SideQuiet

\* ------------------------------------------------------------------------
\* figma.on("selectionchange") with its debounce timer followed as the
\* handle the variable pageChangeTimer holds, and the callbacks of the
\* timeouts as far as their start and their end
\* ------------------------------------------------------------------------

\* how many selectionchange events a behaviour of SpecDebounce holds
MaxSelectionChanges == 3

\* if (pageChangeTimer) clearTimeout(pageChangeTimer): a timeout that has
\* fired, or null, is cleared without effect
ClearTimeout(pending, handle) == pending \ {handle}

\* the id the next setTimeout returns
NextTimeout == Posted({"page-changed-scanning"}) + 1

\* figma.currentPage.selection[0]?.id || null, for an empty selection or the
\* first node of the page
SelectionIds(t, page) ==
  {0} \cup (IF t[page].children = <<>> THEN {} ELSE {t[page].children[1]})

\* the handler when the page is the one last seen: the UI is told of the
\* selection, nothing else
SelectionChanged ==
  /\ Posted({"canvas-selection-changed"}) < MaxSelectionChanges
  /\ currentPage = lastKnownPageId
  /\ \E nodeId \in SelectionIds(tree, currentPage) :
       outbox' = Append(outbox, CanvasSelectionChanged(nodeId))
  /\ UNCHANGED <<storeVars, classCalls, rwiVars, libVars, sessionVars,
                 ignoreCalls,
                 debounceVars, simVars, scanVars, treeVars, reqVars,
                 groupVars, runVars, txVars, pc, idx>>

\* the handler when the user has moved to another page: the page is noted,
\* the timeout the handle names is cleared, the UI is told and a timeout of
\* 300 ms is set
PageChangedDebounced ==
  /\ Posted({"canvas-selection-changed"}) < MaxSelectionChanges
  /\ \E page \in Range(tree[RootId].children) \ {currentPage} :
       /\ currentPage' = page
       /\ lastKnownPageId' = page
       /\ \E nodeId \in SelectionIds(tree, page) :
            outbox' = outbox \o <<PageChangedScanning(tree[page].name),
                                  CanvasSelectionChanged(nodeId)>>
  /\ timers' = ClearTimeout(timers, timerHandle) \cup {NextTimeout}
  /\ timerHandle' = NextTimeout
  /\ UNCHANGED <<storeVars, classCalls, rwiVars, libVars, sessionVars,
                 ignoreCalls,
                 autoScans, simVars, scanVars, tree, nextId, reqVars,
                 groupVars, runVars, txVars, pc, idx>>

\* a timeout fires 300 ms after it was set: its callback calls scanForIcons,
\* which posts its first progress and waits for the pages to load
TimeoutFires ==
  /\ \E id \in timers :
       /\ timers' = timers \ {id}
       /\ autoScans' = autoScans \cup {id}
  /\ outbox' = outbox
                 \o (IF Len(tree[RootId].children) > MAX_PAGES
                       THEN <<ScanProgress(5, 1)>> ELSE <<>>)
                 \o <<ScanProgress(0, 1)>>
  /\ UNCHANGED <<storeVars, classCalls, rwiVars, libVars, sessionVars,
                 ignoreCalls,
                 lastKnownPageId, timerHandle, simVars, scanVars, treeVars,
                 reqVars, groupVars, runVars, txVars, pc, idx>>

\* what the callback posts when its scan has returned; of the result, which
\* SpecScan and SpecIgnore follow, only the page name is kept here
AutoScanComplete(pageName) ==
  [type |-> "scan-complete",
   data |-> [autoScan |-> TRUE, currentPageName |-> pageName]]

\* the handle after the callback's last statement, pageChangeTimer = null
HandleAfterScan(handle) == 0

\* scanForIcons returns to a callback: the result is posted and the handle
\* is set to null
AutoScanReturns ==
  /\ \E id \in autoScans : autoScans' = autoScans \ {id}
  /\ outbox' = Append(outbox, AutoScanComplete(tree[currentPage].name))
  /\ timerHandle' = HandleAfterScan(timerHandle)
  /\ UNCHANGED <<storeVars, classCalls, rwiVars, libVars, sessionVars,
                 ignoreCalls,
                 lastKnownPageId, timers, simVars, scanVars, treeVars,
                 reqVars, groupVars, runVars, txVars, pc, idx>>

\* ------------------------------------------------------------------------
\* figma.ui.onmessage, 'ignore-icon', followed from await to await: several
\* handlers may be between their awaits at a time. The storage answers
\* the calls made of it in the order they were made.
\* ------------------------------------------------------------------------

\* the ids the ignore-icon messages of SpecIgnoreRace carry
IgnoreIds == {ScanPageId(1) + 1, ScanPageId(1) + 3}

NoCall == [at |-> "none", array |-> {}, ticket |-> 0]

CallOf(iconId) ==
  IF iconId \in DOMAIN ignoreCalls THEN ignoreCalls[iconId] ELSE NoCall

\* the calls of getAsync and setAsync made so far
StorageCalls ==
  Cardinality(DOMAIN ignoreCalls)
    + Cardinality({i \in DOMAIN ignoreCalls : ignoreCalls[i].at # "loading"})

CallAt(iconId, at, array) ==
  [i \in DOMAIN ignoreCalls \cup {iconId} |->
     IF i = iconId
       THEN [at |-> at, array |-> array,
             ticket |-> IF at = "done" THEN 0 ELSE StorageCalls + 1]
       ELSE ignoreCalls[i]]

\* the call of the storage the handler waits for is the oldest unanswered
Answered(iconId) ==
  \A i \in DOMAIN ignoreCalls :
    ignoreCalls[i].at \in {"loading", "saving"} =>
      ignoreCalls[iconId].ticket <= ignoreCalls[i].ticket

\* the set in memory after ignoredIcons.add(msg.iconId)
IgnoredWith(ignored, iconId) == ignored \cup {iconId}

\* the message arrives: loadIgnoredIcons calls getAsync and waits
IgnoreReceived ==
  /\ \E iconId \in IgnoreIds \cap DOMAIN tree :
       /\ CallOf(iconId).at = "none"
       /\ ignoreCalls' = CallAt(iconId, "loading", {})
  /\ UNCHANGED <<storeVars, classCalls, rwiVars, libVars, sessionVars,
                 debounceVars, simVars, scanVars, conVars>>

\* getAsync returns, or fails: the set in memory is replaced by the stored
\* array if there is one, the id is added, and saveIgnoredIcons calls
\* setAsync with the array of the set and waits
IgnoreLoaded ==
  /\ \E iconId \in DOMAIN ignoreCalls :
       /\ ignoreCalls[iconId].at = "loading"
       /\ Answered(iconId)
       /\ \E loadFails \in BOOLEAN :
            \E ignored \in {IgnoredWith(loadIgnoredIcons(loadFails), iconId)} :
              /\ ignoredIcons' = ignored
              /\ storageFailed' = (storageFailed \/ loadFails)
              /\ ignoreCalls' = CallAt(iconId, "saving", ignored)
  /\ UNCHANGED <<storedIgnored, scanAuto, pageChangeTimer, classCalls,
                 rwiVars, libVars, sessionVars, debounceVars, simVars,
                 scanPc, pageIndex, pagesToScan, allIcons,
                 masterComponentIds, scanResult, visited, conVars>>

\* setAsync returns, or fails: the array it was given is the stored one,
\* and the UI is told
IgnoreSaved ==
  /\ \E iconId \in DOMAIN ignoreCalls :
       /\ ignoreCalls[iconId].at = "saving"
       /\ Answered(iconId)
       /\ \E saveFails \in BOOLEAN :
            /\ storedIgnored' =
                 saveIgnoredIcons(ignoreCalls[iconId].array, saveFails)
            /\ storageFailed' = (storageFailed \/ saveFails)
       /\ ignoreCalls' = CallAt(iconId, "done", ignoreCalls[iconId].array)
       /\ outbox' = Append(outbox, IconIgnored(iconId, tree[iconId].name))
  /\ UNCHANGED <<scanAuto, pageChangeTimer, classCalls, rwiVars, libVars,
                 sessionVars, debounceVars, simVars, scanVars, treeVars,
                 reqVars, groupVars, runVars, txVars, pc, idx>>

vars == <<simVars, conVars, scanVars, sideVars>>

\* calculateIconSimilarity on every pair of the input sets, both ways round
InitSim == SimInit /\ ConIdle /\ ScanIdle /\ SideIdle
NextSim == SimCallForward \/ SimCallBackward
SpecSim == InitSim /\ [][NextSim]_vars

\* the grouping passes of consolidateSimilarIcons on every request
InitCluster == ClusterInit /\ SimIdle /\ ScanIdle /\ SideIdle
NextCluster ==
  ConStart \/ ConValidate \/ ConGroup \/ ConRefine \/ ConReconcile
SpecCluster == InitCluster /\ [][NextCluster]_vars

\* the grouping passes in files and on pages with other names
InitNaming == NamingInit /\ SimIdle /\ ScanIdle /\ SideIdle
NextNaming ==
  ConStart \/ ConValidate \/ ConGroup \/ ConRefine \/ ConReconcile
SpecNaming == InitNaming /\ [][NextNaming]_vars

\* whole runs of consolidateSimilarIcons with failing tree calls
InitRun == RunInit /\ SimIdle /\ ScanIdle /\ SideIdle
NextRun ==
  \/ ConStart \/ ConValidate \/ ConGroup \/ ConRefine \/ ConReconcile
  \/ ConPrepare \/ GroupBegin \/ GroupMember \/ SingleBegin \/ SingleReplace
  \/ UserDeletes
SpecRun == InitRun /\ [][NextRun]_vars

\* a scan, then a consolidation of what it found
InitSession == SessionInit /\ SimIdle
NextSession ==
  \/ ScanStart \/ ScanMasters \/ ScanPageInstances \/ ScanUnresolved
  \/ ConsolidateRequest
  \/ ConStart \/ ConValidate \/ ConGroup \/ ConRefine \/ ConReconcile
  \/ ConPrepare \/ GroupBegin \/ GroupMember \/ SingleBegin \/ SingleReplace
SpecSession == InitSession /\ [][NextSession]_vars

\* the same, with calls of isLikelyIcon between the steps
InitReclassify ==
  /\ SessionInit
  /\ tree[ScanPageId(1) + 5].name # nLayer1
  /\ storedIgnored = NoEntry
  /\ SimIdle
NextReclassify ==
  \/ ScanStart \/ ScanMasters \/ ScanPageInstances \/ ScanUnresolved
  \/ ConsolidateRequest
  \/ ConStart \/ ConValidate \/ ConGroup \/ ConRefine \/ ConReconcile
  \/ ConPrepare \/ GroupBegin \/ GroupMember \/ SingleBegin \/ SingleReplace
  \/ ClassifyAgain
SpecReclassify == InitReclassify /\ [][NextReclassify]_vars

\* the same, with a replace-with-instance request at any point after the
\* scan
InitConcurrent == SessionInit /\ SimIdle
NextConcurrent ==
  \/ ScanStart \/ ScanMasters \/ ScanPageInstances \/ ScanUnresolved
  \/ ConsolidateRequest
  \/ ConStart \/ ConValidate \/ ConGroup \/ ConRefine \/ ConReconcile
  \/ ConPrepare \/ GroupBegin \/ GroupMember \/ SingleBegin \/ SingleReplace
  \/ RwiRequest \/ RwiLookup \/ RwiMutate
SpecConcurrent == InitConcurrent /\ [][NextConcurrent]_vars

\* scans, requested or started by a page change, with ignore-icon and
\* unignore-icon requests at any point
InitIgnore == IgnoreInit /\ SimIdle
NextIgnore ==
  \/ ScanStart \/ ScanMasters \/ ScanPageInstances \/ ScanUnresolved
  \/ PageChanged \/ AutoScanStart
  \/ IgnoreIcon \/ UnignoreIcon
SpecIgnore == InitIgnore /\ [][NextIgnore]_vars

\* page changes and selection changes with the timeouts they set and the
\* scans the timeouts start
InitDebounce == IgnoreInit /\ SimIdle
NextDebounce ==
  \/ SelectionChanged \/ PageChangedDebounced
  \/ TimeoutFires \/ AutoScanReturns
SpecDebounce == InitDebounce /\ [][NextDebounce]_vars

\* ignore-icon messages for two nodes, their handlers interleaved at the
\* awaits
InitIgnoreRace == IgnoreInit /\ SimIdle
NextIgnoreRace == IgnoreReceived \/ IgnoreLoaded \/ IgnoreSaved
SpecIgnoreRace == InitIgnoreRace /\ [][NextIgnoreRace]_vars

InitClassify == ClassifyInit /\ SimIdle
NextClassify == ClassifyOnce
SpecClassify == InitClassify /\ [][NextClassify]_vars

\* consolidate-icons requests of scope current-page
InitScope == ScopeInit /\ SimIdle /\ ScanIdle /\ SideIdle
NextScope ==
  \/ ConStart \/ ConValidate \/ ConGroup \/ ConRefine \/ ConReconcile
  \/ ConPrepare \/ GroupBegin \/ GroupMember \/ SingleBegin \/ SingleReplace
SpecScope == InitScope /\ [][NextScope]_vars

\* consolidate-icons requests with candidates whose nodes are components
InitConverted == ConvertedInit /\ SimIdle /\ ScanIdle /\ SideIdle
NextConverted ==
  \/ ConStart \/ ConValidate \/ ConGroup \/ ConRefine \/ ConReconcile
  \/ ConPrepare \/ GroupBegin \/ GroupMember \/ SingleBegin \/ SingleReplace
SpecConverted == InitConverted /\ [][NextConverted]_vars

\* scan, consolidate-icons, scan again, consolidate-icons again
InitRescan == RescanInit /\ SimIdle
NextRescan ==
  \/ ScanStart \/ ScanMasters \/ ScanPageInstances \/ ScanUnresolved
  \/ ConsolidateRequest
  \/ ConStart \/ ConValidate \/ ConGroup \/ ConRefine \/ ConReconcile
  \/ ConPrepare \/ GroupBegin \/ GroupMember \/ SingleBegin \/ SingleReplace
  \/ ScanAgain \/ ConsolidateAgain
SpecRescan == InitRescan /\ [][NextRescan]_vars

\* a scan of a document with library pages, then consolidate-library-duplicates
InitLibrary == LibraryInit /\ SimIdle
NextLibrary ==
  \/ ScanStart \/ ScanMasters \/ ScanPageInstances \/ ScanUnresolved
  \/ LibraryRequest \/ LibraryGroup \/ LibraryFinish
SpecLibrary == InitLibrary /\ [][NextLibrary]_vars

InitScan == ScanInit /\ SimIdle
NextScan == ScanStart \/ ScanMasters \/ ScanPageInstances \/ ScanUnresolved
SpecScan == InitScan /\ [][NextScan]_vars

\* ------------------------------------------------------------------------
\* Properties
\* ------------------------------------------------------------------------
\* positions <<g, j>> of enhancedGroups that hold the icon with this id
ClusterPositions(id) ==
  {<<g, j>> \in (DOMAIN enhancedGroups) \X (1..MaxIcons + 1) :
     /\ j <= Len(enhancedGroups[g].group)
     /\ enhancedGroups[g].group[j].id = id}

\* C1: after the two grouping passes and the reconciliation step every
\* validated in-scope unresolved candidate is a member of exactly one
\* cluster of enhancedGroups: none is missing, none is in two clusters.
C1_ExactlyOneCluster ==
  pc = "clustered" =>
    \A i \in DOMAIN validIcons :
      Cardinality(ClusterPositions(validIcons[i].id)) = 1

\* three candidates were clustered into a pair from the first pass and a
\* single of its own
C1_Witness ==
  /\ pc = "clustered"
  /\ Len(validIcons) = 3
  /\ Len(enhancedGroups) = 2
  /\ \E g \in DOMAIN enhancedGroups : Len(enhancedGroups[g].group) = 2

\* the largest similarity of an icon to the representative of a first-pass
\* group of several icons on its page (NoScore when there is none)
RECURSIVE TopSimilarity(_, _, _, _)
TopSimilarity(icon, seeds, i, top) ==
  IF i > Len(seeds) THEN top
  ELSE LET rep == seeds[i].group[1]
           sim == calculateIconSimilarity(icon, rep, tree)
       IN IF rep.page = icon.page /\ ScoreGreater(sim, top)
            THEN TopSimilarity(icon, seeds, i + 1, sim)
            ELSE TopSimilarity(icon, seeds, i + 1, top)

\* the icons that were alone in their first-pass group
Singletons ==
  {iconGroups[i].group[1] : i \in {k \in DOMAIN iconGroups :
                                      Len(iconGroups[k].group) = 1}}

JoinedACluster(icon) ==
  \E g \in DOMAIN enhancedGroups :
    /\ Len(enhancedGroups[g].group) > 1
    /\ icon \in Range(enhancedGroups[g].group)

OwnCluster(icon) ==
  \E g \in DOMAIN enhancedGroups : enhancedGroups[g].group = <<icon>>

\* C2: the merge threshold is inclusive: a singleton whose best similarity
\* to a same-page cluster representative is exactly 70 joins that cluster,
\* and one whose best similarity is 69 becomes its own 1-member cluster.
C2_ThresholdInclusive ==
  pc = "clustered" =>
    \A icon \in Singletons :
      LET top == TopSimilarity(icon, SeedGroups(iconGroups), 1, NoScore)
      IN /\ ScoreIs(top, 70) => JoinedACluster(icon)
         /\ ScoreIs(top, 69) => OwnCluster(icon) /\ ~JoinedACluster(icon)

Ids(group) == {group[i].id : i \in DOMAIN group}

\* the nodes a call created, by type
Created(call, type) ==
  {n \in (DOMAIN call.after) \ (DOMAIN call.before) : call.after[n].type = type}

\* an instance of the master made by the call stands under the parent the
\* member's node had, with the member's coordinates
InstanceStandsIn(call, id) ==
  \E n \in Created(call, "INSTANCE") :
    /\ call.after[n].main = call.component
    /\ call.after[n].parent = call.before[id].parent
    /\ call.after[n].x = call.before[id].x
    /\ call.after[n].y = call.before[id].y

\* a createComponentFromIconGroup call has returned that met no failing
\* tree call and found every member's node in the document
UndisturbedGroupCall ==
  /\ lastTx.kind = "group"
  /\ ~lastTx.faulted
  /\ Ids(lastTx.group) \subseteq DOMAIN lastTx.before

\* C3: a cluster of N candidates processed by createComponentFromIconGroup
\* with no tree-interface failure yields exactly one new master, on the
\* library page; the representative's source node is deleted, each of the
\* other N-1 members is replaced by an instance of that master, and the
\* reported iconsReplaced is N.
C3_OneMasterNInstances ==
  UndisturbedGroupCall =>
    LET N == Len(lastTx.group)
        representative == bestIcon(lastTx.group).id
    IN /\ Created(lastTx, "COMPONENT") = {lastTx.component}
       /\ lastTx.after[lastTx.component].parent = libraryPage
       /\ representative \notin DOMAIN lastTx.after
       /\ \A id \in Ids(lastTx.group) \ {representative} :
            id \notin DOMAIN lastTx.after /\ InstanceStandsIn(lastTx, id)
       /\ Cardinality(Created(lastTx, "INSTANCE")) = N - 1
       /\ lastTx.result.iconsReplaced = N

\* an undisturbed call on a cluster of three whose representative is not
\* its first member
C3_Witness ==
  /\ UndisturbedGroupCall
  /\ Len(lastTx.group) = 3
  /\ bestIcon(lastTx.group).id # lastTx.group[1].id

\* the canonical master of the call in progress exists on the library page
MasterOnLibraryPage ==
  /\ tx.component \in DOMAIN tree
  /\ tree[tx.component].type = "COMPONENT"
  /\ tree[tx.component].parent = libraryPage

\* this step of the handler removes the node of a member of the cluster
\* that is being processed
HandlerDeletesMember ==
  /\ pc \in {"groups", "members", "singles", "singleReplace"}
  /\ ~UserDeletes
  /\ \E id \in Ids(CurrentGroup) : id \in DOMAIN tree /\ id \notin DOMAIN tree'

\* a call returned without having created the master
ReturnedWithoutMaster == lastTx.kind # "none" /\ lastTx.component = 0

\* C4: in a cluster transaction no member's node is deleted before the
\* master of that cluster exists on the library page, and a transaction
\* that could not create the master leaves every member's node in place.
C4_MasterBeforeDeletion ==
  /\ [][HandlerDeletesMember => MasterOnLibraryPage]_vars
  /\ [](ReturnedWithoutMaster =>
          \A id \in Ids(lastTx.group) :
            id \in DOMAIN lastTx.before => id \in DOMAIN lastTx.after)

\* a group call whose representative resolved gave up before the master
\* was made, and its members are still in the document
C4_Witness ==
  /\ ReturnedWithoutMaster
  /\ lastTx.kind = "group"
  /\ lastTx.faulted
  /\ Ids(lastTx.group) \subseteq DOMAIN lastTx.after

\* the run has posted its completion message
RunCompleted ==
  /\ pc = "done"
  /\ Len(outbox) > 0
  /\ outbox[Len(outbox)].type = "consolidation-complete"
  /\ libraryPage # 0

C6_ResultConsistent ==
  lastTx.kind # "none" =>
    /\ lastTx.result.success <=> lastTx.result.iconsReplaced > 0
    /\ lastTx.result.iconsReplaced = Cardinality(lastTx.counted)
    /\ lastTx.result.pagesAffected =
         {lastTx.group[i].page :
            i \in {k \in DOMAIN lastTx.group :
                     lastTx.group[k].id \in lastTx.counted}}

\* the master of a pair was created but neither member was replaced: the
\* call reports failure
C6_Witness ==
  /\ lastTx.kind = "group"
  /\ lastTx.component # 0
  /\ lastTx.visited = Ids(lastTx.group)
  /\ ~lastTx.result.success
  /\ lastTx.result.pagesAffected = {}

\* C10: calculateIconSimilarity is symmetric: with the same backing-node
\* resolvability in both calls, similarity(a,b) equals similarity(b,a),
\* library-prefixed names on one side, both sides or neither included.
C10_SimilaritySymmetric ==
  simPc = "done" => simAB = simBA

\* a pair with a library-prefixed name on exactly one side has been scored
\* both ways, with both backing nodes resolved
C10_Witness ==
  /\ simPc = "done"
  /\ libraryPattern(simIcon1.name) > 0
  /\ libraryPattern(simIcon2.name) = 0
  /\ simNodes[1] # Null /\ simNodes[2] # Null
  /\ simIcon1.width # simIcon2.width
  /\ simAB.num > 0

\* ------------------------------------------------------------------------
\* Scan results
\* ------------------------------------------------------------------------
\* the candidates of the scan: those collected so far and those of the
\* posted result
ScanCandidates ==
  Range(allIcons)
    \cup (IF scanResult = Null THEN {} ELSE Range(scanResult.discoveredIcons))

StatusOfKind(type) ==
  CASE type \in {"COMPONENT", "COMPONENT_SET"} -> "master"
    [] type = "INSTANCE" -> "instance"
    [] type \in {"FRAME", "GROUP", "VECTOR", "BOOLEAN_OPERATION"} -> "unresolved"
    [] OTHER -> "none"

\* C7: every candidate of a scan has one of the three statuses, the status
\* is the one of its node's kind, and a candidate with status instance
\* carries the id of a component in the scan's masterComponentIds
C7_StatusAgreesWithKind ==
  \A icon \in ScanCandidates :
    /\ icon.status \in {"unresolved", "instance", "master"}
    /\ icon.type = tree[icon.id].type
    /\ icon.status = StatusOfKind(tree[icon.id].type)
    /\ icon.status = "instance" =>
         /\ icon.masterComponentId = tree[icon.id].main
         /\ icon.masterComponentId \in masterComponentIds

\* a finished scan with candidates of the three statuses that passed over
\* an instance of a component that is no master
C7_Witness ==
  /\ scanPc = "done"
  /\ scanResult # Null
  /\ \A status \in {"unresolved", "instance", "master"} :
       \E icon \in Range(scanResult.discoveredIcons) : icon.status = status
  /\ \E page \in Range(pagesToScan) :
       \E n \in Range(tree[page].children) :
         /\ tree[n].type = "INSTANCE"
         /\ tree[n].main \in DOMAIN tree
         /\ tree[n].main \notin masterComponentIds
         /\ \A icon \in Range(scanResult.discoveredIcons) : icon.id # n

\* C8: the number of candidates a scan has collected never exceeds MAX_ICONS
C8_CapIsHard == Len(allIcons) <= MAX_ICONS

\* the page a node lies on
RECURSIVE PageOf(_, _)
PageOf(t, id) ==
  IF t[id].type = "PAGE" THEN id ELSE PageOf(t, t[id].parent)

\* the lower-cased name contains 'archive', 'old', 'backup' or the glyph
HasArchiveName(name) ==
  \E pattern \in {<<"a","r","c","h","i","v","e">>, <<"o","l","d">>,
                  <<"b","a","c","k","u","p">>, ArchiveGlyph} :
    Includes(ToLowerCase(name), pattern)

\* C9: no candidate lies on a page with an archive name, no such page is in
\* the list of pages to scan, and none is visited by any of the phases
C9_ArchivePagesExcluded ==
  /\ \A icon \in ScanCandidates :
       /\ ~HasArchiveName(icon.page)
       /\ ~HasArchiveName(tree[PageOf(tree, icon.id)].name)
  /\ \A page \in Range(pagesToScan) : ~HasArchiveName(tree[page].name)
  /\ \A visit \in visited : ~HasArchiveName(tree[visit[2]].name)

\* a finished scan that found candidates in a document whose first pages
\* include one with 'old' in its lower-cased name and icons on it
C9_Witness ==
  /\ scanPc = "done"
  /\ scanResult # Null
  /\ scanResult.discoveredIcons # <<>>
  /\ visited # {}
  /\ \E page \in Range(PagesToProcess(tree[RootId].children)) :
       /\ Includes(ToLowerCase(tree[page].name), <<"o","l","d">>)
       /\ \E n \in Range(tree[page].children) :
            isLikelyIcon(tree, n, FALSE).result /\ Accessible(tree[n])

\* ------------------------------------------------------------------------
\* The range of the similarity score
\* ------------------------------------------------------------------------
\* the sum of the four components that need no backing node, times the
\* denominator of the score
ScoreWithoutVisualNum(icon1, icon2, nameScore) ==
  (SizeScore(icon1, icon2) + nameScore + SourceScore(icon1, icon2))
     * icon1.height * icon2.height
    + RatioScoreNum(icon1, icon2)

Calls == Range(classCalls)

SupportedKinds ==
  {"COMPONENT", "COMPONENT_SET", "INSTANCE", "FRAME", "VECTOR",
   "BOOLEAN_OPERATION", "GROUP"}

\* C12: no call of isLikelyIcon throws; a call on a node without a bounding
\* box, on a node of an unsupported kind, or one in which a read of the
\* node fails returns false
C12_ClassifierNeverThrows ==
  \A call \in Calls :
    /\ ~call.outcome.threw
    /\ call.outcome.result \in BOOLEAN
    /\ call.fails => ~call.outcome.result
    /\ ~HasBounds(call.view.node) => ~call.outcome.result
    /\ call.view.node.type \notin SupportedKinds => ~call.outcome.result

\* a call in which a read fails, on a node the classifier accepts when
\* nothing fails
C12_Witness ==
  \E call \in Calls :
    /\ call.fails
    /\ ~call.outcome.result
    /\ LikelyIconBody(tree, call.id)

\* the four conditions on a frame, read from what the call could see
FrameGates(view) ==
  LET width == view.node.size[1]
      height == view.node.size[2]
  IN /\ 75 * height <= 100 * width /\ 100 * width <= 133 * height
     /\ \E canonical \in standardIconSizes :
          /\ width \in (canonical - 2)..(canonical + 2)
          /\ height \in (canonical - 2)..(canonical + 2)
     /\ \E i \in DOMAIN view.kids : view.kids[i] \in VectorContentTypes
     /\ Len(view.kids) <= 5

\* C14: a call on a FRAME returns true exactly when the four conditions
\* hold together; a 24x24 frame with one VECTOR child is accepted and a
\* 24x40 frame with the same child is rejected
C14_FrameGatesConjunctive ==
  \A call \in Calls :
    (call.view.node.type = "FRAME" /\ ~call.fails) =>
      /\ call.outcome.result <=> FrameGates(call.view)
      /\ (call.view.node.size = <<24, 24>> /\ call.view.kids = <<"VECTOR">>)
           => call.outcome.result
      /\ (call.view.node.size = <<24, 40>> /\ call.view.kids = <<"VECTOR">>)
           => ~call.outcome.result

\* a call that accepts a 24x24 frame named Icon/arrow with one VECTOR child
C14_Witness ==
  \E call \in Calls :
    /\ call.view.node.type = "FRAME"
    /\ call.view.node.name = nIconArrow
    /\ call.view.node.size = <<24, 24>>
    /\ call.view.kids = <<"VECTOR">>
    /\ ~call.fails
    /\ call.outcome.result

\* C15: a call on an INSTANCE whose lower-cased name contains a UI word
\* returns false, whatever the size and the rest of the name
C15_UIInstanceRejected ==
  \A call \in Calls :
    (/\ call.view.node.type = "INSTANCE"
     /\ \E word \in InstanceUIWords :
          Includes(ToLowerCase(call.view.node.name), word))
      => ~call.outcome.result

\* a call on a 24x24 instance whose name carries an icon marker and a UI
\* word, with nothing failing
C15_Witness ==
  \E call \in Calls :
    /\ call.view.node.type = "INSTANCE"
    /\ call.view.node.name = nHomeIconTab
    /\ call.view.node.size = <<24, 24>>
    /\ ~call.fails
    /\ ~call.outcome.result

C16_MutationsSequenced == ~ConsolidationInProgress(rwiDuring)

\* C17: a scan that failed as a whole (it returned the empty result of the
\* load failure) is answered with exactly one scan-error and with no
\* scan-complete
C17_FailedScanOnlyError ==
  (scanPc = "done" /\ scanResult = EmptyResult) =>
    /\ Posted({"scan-error"}) = 1
    /\ Posted({"scan-complete"}) = 0

\* the messages of the consolidation in the order they were posted
ConsolidationMessages ==
  SelectSeq(outbox, LAMBDA m : m.type \in {"consolidation-progress",
                                           "consolidation-complete",
                                           "consolidation-error"})

TerminalTypes == {"consolidation-complete", "consolidation-error"}

\* C18: a consolidate request has posted no terminal message
\* (consolidation-complete or consolidation-error) while it is being worked
\* on and exactly one once it has returned, after all of its progress
\* messages; the percentages lie in [0, 100] and never decrease
C18_OneTerminalMessage ==
  LET posted == ConsolidationMessages
      terminals == {i \in DOMAIN posted : posted[i].type \in TerminalTypes}
      progress == (DOMAIN posted) \ terminals
  IN /\ terminals \subseteq {Len(posted)}
     /\ (pc = "done") <=> (terminals # {})
     /\ \A i \in progress :
          /\ 0 <= posted[i].num
          /\ posted[i].num <= 100 * posted[i].den
          /\ \A j \in progress :
               i < j => posted[i].num * posted[j].den
                          <= posted[j].num * posted[i].den

\* a run that ended after the progress messages 0, 10, 20 and those of two
\* operations, one of which failed
C18_Witness ==
  /\ pc = "done"
  /\ outbox[Len(outbox)].type = "consolidation-complete"
  /\ Posted({"consolidation-progress"}) >= 5
  /\ failedOperations > 0

\* C19: while no call of the client storage has failed, a scan that
\* completes, requested or started by a page change, reports every icon
\* whose id is in the stored ignored set with isIgnored true and counts in
\* totalIcons only the others
C19_StoredIgnoredExcluded ==
  [][(scanPc # "done" /\ scanPc' = "done" /\ ~storageFailed') =>
       LET icons == scanResult'.discoveredIcons
           stored == {i \in DOMAIN icons : icons[i].id \in storedIgnored'.ids}
       IN /\ \A i \in stored : icons[i].isIgnored
          /\ scanResult'.totalIcons = Len(icons) - Cardinality(stored)]_vars

\* C20: no step of a consolidate-icons run over the icons of a scan deletes
\* or moves to another parent a node that the scan reported with status
\* master or instance
C20_ReportedNodesKept ==
  [][(scanPc = "done" /\ pc \notin {"idle", "request"}) =>
       \A id \in ReportedAs("master") \cup ReportedAs("instance") :
         id \in DOMAIN tree =>
           /\ id \in DOMAIN tree'
           /\ tree'[id].parent = tree[id].parent]_vars

\* a createComponentFromIconGroup call has returned after creating its
\* master
MasterCreatedCall == lastTx.kind = "group" /\ lastTx.component # 0

\* C21: after a cluster transaction in which the canonical master was
\* created, no member's original node is still in the tree: each was
\* deleted (the representative's source, or a member removed by the
\* fallback) or replaced by an instance of the new master.
C21_NoMemberNodeLeft ==
  MasterCreatedCall =>
    \A id \in Ids(lastTx.group) : id \notin DOMAIN lastTx.after

\* the components phase 1 records on a page when nothing cuts it short,
\* with the variants it tracks
PageMasters(t, page) ==
  LET accepted == {c \in Range(FindAll(t, page, {"COMPONENT", "COMPONENT_SET"})) :
                     /\ isLikelyIcon(t, c, FALSE).result
                     /\ HasBounds(t[c])
                     /\ Accessible(t[c])}
  IN accepted \cup UNION {VariantIds(t, c) :
                            c \in {s \in accepted : t[s].type = "COMPONENT_SET"}}

\* C22: phase 2 of a scan starts only after phase 1 has visited every page
\* to be scanned: whenever an instance is tested against
\* masterComponentIds, the set holds every accepted master and variant of
\* all pages of the scan.
C22_PhaseBarrier ==
  scanPc = "instances" =>
    \A i \in DOMAIN pagesToScan :
      /\ <<1, pagesToScan[i]>> \in visited
      /\ PageMasters(tree, pagesToScan[i]) \subseteq masterComponentIds

\* scanForIcons has run its three loops and returned its result
ScanReturned == scanPc = "done" /\ "ignoredCount" \in DOMAIN scanResult

\* C23: the caps only truncate the input lists: a scan that has started
\* classifying never stops early, and each of its three phases visits
\* every page of the capped, archive-filtered page list.
C23_EveryPhaseVisitsEveryPage ==
  ScanReturned =>
    \A phase \in 1..3 :
      \A i \in DOMAIN pagesToScan : <<phase, pagesToScan[i]>> \in visited

\* the candidates of the running scan recorded with a status
Recorded(status) ==
  {allIcons[i] : i \in {k \in DOMAIN allIcons : allIcons[k].status = status}}

\* C24: in phase 2 an instance becomes a candidate only if the classifier
\* accepts it and its main component is in masterComponentIds: an instance
\* that isLikelyIcon rejects is never recorded.
C24_InstancesClassified ==
  \A icon \in Recorded("instance") :
    /\ icon.masterComponentId \in masterComponentIds
    /\ isLikelyIcon(tree, icon.id, FALSE).result

\* the ancestors of a node below its page
Ancestors(t, id) ==
  LET chain == AncestorIds(t, t[id].parent)
  IN {chain[i] : i \in DOMAIN chain}

\* C25: no unresolved candidate of a scan has an ancestor whose id is in
\* the scan's masterComponentIds or an ancestor of kind INSTANCE: the
\* content of a recorded master or of an instance is never reported as an
\* unresolved icon of its own.
C25_NoCandidateInsideMasterOrInstance ==
  \A icon \in Recorded("unresolved") :
    \A a \in Ancestors(tree, icon.id) :
      a \notin masterComponentIds /\ tree[a].type # "INSTANCE"

\* a finished scan recorded an unresolved candidate and passed over a shape
\* inside an instance that the classifier accepts and that was among the
\* first MAX_UNRESOLVED_PER_PAGE * 3 nodes of its page
C25_Witness ==
  /\ ScanReturned
  /\ Recorded("unresolved") # {}
  /\ \E page \in Range(pagesToScan) :
       \E n \in Range(Slice(FindAll(tree, page, {"FRAME", "GROUP", "VECTOR",
                                                 "BOOLEAN_OPERATION"}),
                            MAX_UNRESOLVED_PER_PAGE * 3)) :
         /\ <<3, page>> \in visited
         /\ \E a \in Ancestors(tree, n) : tree[a].type = "INSTANCE"
         /\ isLikelyIcon(tree, n, FALSE).result
         /\ \A icon \in Recorded("unresolved") : icon.id # n

\* the test of the VECTOR branch on one ancestor: a FRAME with bounds, an
\* aspect ratio in [0.5, 2] and a size of at most 200
SquareishIconSized(node) ==
  /\ node.type = "FRAME"
  /\ HasBounds(node)
  /\ 2 * node.size[1] >= node.size[2]
  /\ node.size[1] <= 2 * node.size[2]
  /\ Max(node.size[1], node.size[2]) <= 200

\* the ancestor frames for which the VECTOR branch rejects the node
RejectingFrames(t, id) ==
  {a \in Ancestors(t, id) : SquareishIconSized(t[a])}

\* C26: whenever the classifier rejects a VECTOR, BOOLEAN_OPERATION or
\* GROUP because of an ancestor FRAME that is square-ish and icon-sized,
\* that frame is itself accepted by the classifier, so the shape is counted
\* through its frame and never zero times.
C26_RejectingFrameAccepted ==
  \A call \in Calls :
    ( /\ call.view.node.type \in {"VECTOR", "BOOLEAN_OPERATION", "GROUP"}
      /\ ~call.fails
      /\ HasBounds(call.view.node)
      /\ RejectingFrames(tree, call.id) # {} ) =>
      /\ ~call.outcome.result
      /\ \E frame \in RejectingFrames(tree, call.id) :
           isLikelyIcon(tree, frame, FALSE).result

\* C27: no unresolved candidate of a scan is a descendant of another
\* unresolved candidate of the same scan.
C27_CandidatesNotNested ==
  \A inner \in Recorded("unresolved") :
    \A outer \in Recorded("unresolved") :
      outer.id \notin Ancestors(tree, inner.id)

\* the members a call record has counted as replaced
CountedOf(call) == IF "counted" \in DOMAIN call THEN call.counted ELSE {}

\* in this step replaceWithInstance has run to its end on the node: the
\* member loop counts the node, an instance was created and the node has
\* left the document
ReplacedInStep(id) ==
  /\ pc \in {"members", "singleReplace"}
  /\ id \in DOMAIN tree /\ id \notin DOMAIN tree'
  /\ nextId' = nextId + 1
  /\ id \notin CountedOf(tx)
  /\ id \in CountedOf(tx') \cup CountedOf(lastTx')

\* the instance made in this step stands where the node stood
InstanceTakesPlace(id) ==
  LET parent == tree[id].parent
      index == IndexOf(tree[parent].children, id)
      instance == nextId
  IN /\ instance \in DOMAIN tree'
     /\ tree'[instance].type = "INSTANCE"
     /\ tree'[instance].main = tx.component
     /\ tree'[instance].parent = parent
     /\ IndexOf(tree'[parent].children, instance) = index
     /\ tree'[instance].x = tree[id].x
     /\ tree'[instance].y = tree[id].y
     /\ tree'[instance].props = tree[id].props
     /\ Without(tree'[parent].children, instance)
          = Without(tree[parent].children, id)

\* C28: replaceWithInstance keeps position and sibling order: after it has
\* replaced a node, the new instance is a child of the same parent at the
\* index the original had, carries the original's x, y, rotation, opacity
\* and visibility, the original is gone, and the other siblings are in the
\* order they had.
C28_PositionAndOrderKept ==
  [][\A id \in DOMAIN tree : ReplacedInStep(id) => InstanceTakesPlace(id)]_vars

\* a call has replaced a member that was not the last child of its parent
\* and had a position other than the origin: the instance of the call's
\* master now precedes the same sibling
C28_Witness ==
  /\ lastTx.kind # "none"
  /\ \E id \in lastTx.counted :
       /\ id \in DOMAIN lastTx.before /\ id \notin DOMAIN lastTx.after
       /\ lastTx.before[id].x # 0
       /\ \E n \in Created(lastTx, "INSTANCE") :
            LET parent == lastTx.before[id].parent
                then == lastTx.before[parent].children
                now == lastTx.after[parent].children
            IN /\ lastTx.after[n].parent = parent
               /\ lastTx.after[n].x = lastTx.before[id].x
               /\ IndexOf(then, id) + 2 <= Len(then)
               /\ IndexOf(now, n) + 2 <= Len(now)
               /\ now[IndexOf(now, n) + 2] = then[IndexOf(then, id) + 2]

\* name.length + (10 if the name contains "icon" else 0)
RepresentativeScore(icon) ==
  Len(icon.name)
    + (IF \E i \in 1..(Len(icon.name) - 3) :
            SubSeq(icon.name, i, i + 3) = <<"i","c","o","n">>
         THEN 10 ELSE 0)

\* the k-th member reaches the maximum and no earlier member does
EarliestMaximum(group, k) ==
  /\ \A i \in DOMAIN group :
       RepresentativeScore(group[i]) <= RepresentativeScore(group[k])
  /\ \A i \in 1..(k - 1) :
       RepresentativeScore(group[i]) < RepresentativeScore(group[k])

\* C29: the representative of a cluster is a member that maximizes
\* name.length + (10 if the name contains "icon" else 0) over the members,
\* and of several members that reach the maximum it is the earliest in
\* cluster order.
C29_RepresentativeIsEarliestMaximum ==
  pc = "members" =>
    \E k \in DOMAIN CurrentGroup :
      /\ EarliestMaximum(CurrentGroup, k)
      /\ bestIcon(CurrentGroup) = CurrentGroup[k]

\* the member loop of a cluster of three runs whose first member has a
\* lower score than the other two, which are equal: the second is the
\* representative
C29_Witness ==
  /\ pc = "members"
  /\ Len(CurrentGroup) = 3
  /\ RepresentativeScore(CurrentGroup[1]) < RepresentativeScore(CurrentGroup[2])
  /\ RepresentativeScore(CurrentGroup[2]) = RepresentativeScore(CurrentGroup[3])
  /\ bestIcon(CurrentGroup).id = CurrentGroup[2].id

\* C30: every cluster produced by consolidateSimilarIcons contains
\* candidates of a single page: neither the exact-key buckets of pass 1 nor
\* the similarity refinement of pass 2 puts candidates of two different
\* pages into one cluster.
C30_ClustersWithinOnePage ==
  /\ \A g \in DOMAIN iconGroups :
       \A i, j \in DOMAIN iconGroups[g].group :
         iconGroups[g].group[i].page = iconGroups[g].group[j].page
  /\ \A g \in DOMAIN enhancedGroups :
       \A i, j \in DOMAIN enhancedGroups[g].group :
         enhancedGroups[g].group[i].page = enhancedGroups[g].group[j].page

\* the components on the icon library page
LibraryMasters ==
  {n \in DOMAIN tree : tree[n].type = "COMPONENT" /\ tree[n].parent = libraryPage}

\* C31: the masters created during one consolidation run are laid out by
\* creation order on the 80 px grid, ten to a row, so no two masters
\* created in the same run share a grid position.
C31_GridPositionsDistinct ==
  libraryPage # 0 =>
    \A a \in LibraryMasters :
      \A b \in LibraryMasters \ {a} :
        <<tree[a].x, tree[a].y>> # <<tree[b].x, tree[b].y>>

\* C32: consolidate-library-duplicates never deletes a master: no node of
\* kind COMPONENT or COMPONENT_SET and no candidate with status master
\* leaves the document by a removal of the handler.
C32_NoMasterDeleted ==
  \A gone \in libGone :
    /\ gone.type \notin {"COMPONENT", "COMPONENT_SET"}
    /\ \A i \in DOMAIN reqIcons :
         reqIcons[i].id = gone.id => reqIcons[i].status # "master"

\* C33: a consolidate request of scope current-page leaves the node of
\* every candidate of another page than the current one where it is,
\* whether or not currentPageName came with the request.
C33_OtherPagesUntouched ==
  reqScope = "current-page" =>
    \A i \in DOMAIN reqIcons :
      reqIcons[i].page # tree[currentPage].name =>
        /\ reqIcons[i].id \in DOMAIN tree
        /\ tree[reqIcons[i].id].parent = PageIdOf(reqIcons[i].page)

\* C34: in the result of a run that reaches completion, componentsCreated
\* plus failedOperations is the number of clusters processed (the groups of
\* several icons and the single icons), and iconsReplaced is at most the
\* number of validated candidates in scope.
C34_ResultCounts ==
  RunCompleted =>
    LET data == outbox[Len(outbox)]
    IN /\ data.componentsCreated + data.failedOperations
            = Len(groupsToProcess) + Len(singleIcons)
       /\ data.iconsReplaced <= Len(validIcons)

\* a completed run with a group whose members were replaced and a cluster
\* that failed
C34_Witness ==
  /\ RunCompleted
  /\ outbox[Len(outbox)].componentsCreated > 0
  /\ outbox[Len(outbox)].failedOperations > 0
  /\ outbox[Len(outbox)].iconsReplaced > 1
  /\ Len(groupsToProcess) > 0

\* C35: iconsReplaced counts only members whose original node was
\* consumed: the node of every member counted by a cluster transaction has
\* left the tree when the transaction returns.
C35_CountedMeansConsumed ==
  lastTx.kind # "none" =>
    \A id \in lastTx.counted : id \notin DOMAIN lastTx.after

\* C36: after a failure-free consolidate-icons of scope all-pages over the
\* candidates of a scan that returned its result, a fresh scan reports neither a consolidated icon
\* nor a node inside one of the new masters as unresolved, and a second
\* consolidate-icons creates no component and replaces no icon.
C36_Idempotent ==
  (firstRun # Null /\ firstRun.scope = "all-pages" /\ firstRun.scanned) =>
    /\ ScanReturned =>
         \A i \in DOMAIN scanResult.discoveredIcons :
           LET icon == scanResult.discoveredIcons[i]
           IN icon.status = "unresolved" =>
                /\ icon.id \notin firstRun.candidates
                /\ Ancestors(tree, icon.id) \cap firstRun.masters = {}
    /\ secondRun => componentsCreated = 0 /\ iconsReplaced = 0

\* C37: at most one automatic scan started by a page change is executing at
\* any time
C37_OneAutoScanAtATime == Cardinality(autoScans) <= 1

\* C38: at most one debounce timer is pending at any time, so that the page
\* changes of a burst, each made while the timer of the one before is
\* pending, start one scan; a step without a page change sets no timer and
\* starts no scan but that of a timer already set
C38_Debounced ==
  [][/\ Cardinality(timers') <= 1
     /\ lastKnownPageId' = lastKnownPageId =>
          /\ timers' \subseteq timers
          /\ autoScans' \subseteq autoScans \cup timers]_vars

\* C39: when the ignore-icon handlers for two different ids have both
\* completed, with no failure of the storage, both ids are in the stored
\* array and in the set in memory
C39_NoLostIgnore ==
  \A a \in DOMAIN ignoreCalls, b \in DOMAIN ignoreCalls :
    (a # b /\ ignoreCalls[a].at = "done" /\ ignoreCalls[b].at = "done"
       /\ ~storageFailed) =>
      /\ {a, b} \subseteq storedIgnored.ids
      /\ {a, b} \subseteq ignoredIcons

\* the counts of a ScanResult against the ignored set it was split by
ResultCounts(result, ignored) ==
  LET icons == result.discoveredIcons
      inSet == {i \in DOMAIN icons : icons[i].id \in ignored}
      active == DOMAIN icons \ inSet
  IN /\ \A i \in DOMAIN icons, j \in DOMAIN icons :
          icons[i].id = icons[j].id => i = j
     /\ result.totalIcons = Cardinality(active)
     /\ result.ignoredCount = Cardinality(inSet)
     /\ result.totalIcons + result.ignoredCount = Len(icons)
     /\ result.inconsistencies =
          Cardinality({i \in active : icons[i].hasInconsistency})

====
